---- MODULE Spec2Model ----
(***************************************************************************)
(* State-machine model of the CRM dashboard frontend:                      *)
(*   - the student profile page                                            *)
(*     (app/dashboard/student/[studentId]/page.tsx): the React state of    *)
(*     StudentProfile, its event handlers, and the requests they leave in  *)
(*     flight;                                                             *)
(*   - the login server action, in its two versions                        *)
(*     (components/actions/login-action.ts and part_001);                  *)
(*   - the student directory and its filters (part_000);                   *)
(*   - the stats summary (app/dashboard/StudentDirectorySummary.tsx);      *)
(*   - the operations of the API client (lib/api/students.ts);             *)
(*   - the two effects of the profile page under a route whose studentId   *)
(*     changes.                                                            *)
(* Every handler that awaits a fetch is split at the await: one action     *)
(* for the part that runs in the event, one action per outcome of the      *)
(* continuation.  Each part has its own specification over the one Init.   *)
(*                                                                         *)
(* A nullable value (T | null) is a sequence of length 0 (null) or 1.      *)
(***************************************************************************)
EXTENDS Naturals, Sequences, FiniteSets, TLC

\* ------------------------------------------------------------------ bounds
\* Number of user operations that issue a request (tag toggle, notes save,
\* log add, email confirmation, AI summary), of login calls and of route
\* changes in one behaviour.
MaxOps == 2
\* Largest value of the millisecond clock read by Date.now().
MaxClock == 1
\* Largest number of students GET /students answers with.
MaxStudents == 2

\* ------------------------------------------------------------ value domains
\* page.tsx 253-257
availableTags ==
    {"Students not contacted in 7 days", "High intent", "Needs essay help"}

\* Texts typed into the notes box.
NoteTexts == {"", "call back"}
\* What the user fills the add-log form with: an option of the <select>,
\* page.tsx 720-723, and a description.
LogForms == {<<"Call", "left voicemail">>}
\* Summaries the AI endpoint can answer with.
Summaries == {"## Summary", "No activity yet"}
FallbackSummary == "Failed to generate AI summary. Please try again later."

Null == <<>>
Some(v) == <<v>>

\* `x || []` and `x || ""` of page.tsx 124-125, 261-262, 291: the default
\* for null (a falsy "" is replaced by the default "", which is itself).
OrElse(x, d) == IF x = Null THEN d ELSE x[1]

\* Array.prototype.includes
Includes(s, x) == \E i \in 1..Len(s) : s[i] = x
\* Array.prototype.filter(t => t !== x)
Without(s, x) == SelectSeq(s, LAMBDA t : t # x)
SeqSet(s) == {s[i] : i \in 1..Len(s)}
NoDup(s) == \A i, j \in 1..Len(s) : s[i] = s[j] => i = j

\* Tag arrays the backend can hold for the student apart from what this
\* page sent it (the initial value, another user's edit, a normalisation).
ServerTagLists == {<<>>, <<"High intent">>}
ServerTags == {Null} \cup {Some(s) : s \in ServerTagLists}
ServerNotes == {Null, Some("call back")}
\* interface Student, page.tsx 25-35 (the fields the handlers read or write).
Student(tags, internal_notes) == [tags |-> tags, internal_notes |-> internal_notes]
\* Profiles GET /students/{id} can answer with.
Profiles == {Student(t, n) : t \in ServerTags, n \in ServerNotes}
\* Profiles PATCH /students/{id}/tags can answer a request with: the tags
\* it was sent, or other tags the backend holds.
TagAnswers(r) ==
    {Student(t, r.student[1].internal_notes) : t \in {Some(r.body)} \cup ServerTags}
\* Profiles PATCH /students/{id}/internal_notes can answer a request with:
\* the notes it was sent, and the tags the backend holds.
NoteAnswers(r) ==
    {Student(t, Some(r.body)) : t \in {r.student[1].tags} \cup ServerTags}

VARIABLES
    \* React state of StudentProfile, page.tsx 85-98
    student, loading, error, notes, selectedTags,
    isEmailModalOpen, toasts, isAddLogModalOpen, communicationLogs,
    newLogType, newLogContent, aiSummary, isGeneratingSummary,
    \* requests in flight, one set per handler
    studentFetch, logsFetch, tagReqs, noteReqs, logReqs, emailReqs, aiReqs,
    \* timers started by showToast and not yet fired, oldest first (all have
    \* the same delay, so they fire in the order they were started):
    \* [id, dismissed], id the argument the callback will filter by,
    \* dismissed whether the user has closed the toast it was started for
    timers,
    \* Date.now()
    now,
    \* the backend's communication log of this student and its id counter
    srvLogs, srvLogId,
    \* number of operations issued so far; also the next request id
    nextId,
    \* the step taken last, [op, id]: the handler part that ran, "ui" for
    \* a step that only sets a form field, a modal flag or the clock,
    \* "backend" for the backend handling a request
    ev,
    \* the outcomes handled so far of the profile fetch and of the tag and
    \* notes requests, in the order they arrived: [id, op, answer]
    settled,
    \* the login server action (components/actions/login-action.ts and the
    \* later version of it in part_001): which of the two runs, where the
    \* call stands, the submitted form, the Response of the POST, the
    \* browser's cookie, what the call returned, what it threw, and the
    \* requests, cookie writes and redirects it made, in order
    impl, lpc, formData, response, cookieJar, result, thrown, effects, logins,
    \* React state of StudentDirectory, part_000 33-40, and its fetch
    students, dirLoading, dirError, search, status, country, filterTags,
    dirFetch,
    \* React state of StudentDirectorySummary, StudentDirectorySummary.tsx
    \* 79-81, and its fetch
    stats, isLoading, isError, statsFetch,
    \* one call of an operation of the API client, lib/api/students.ts:
    \* the operation, the HTTP requests it has issued, the Response it got
    \* and how its promise settled
    apiCall, apiRequests, apiResponse, apiOutcome,
    \* history: the log entries that handleAddLog has put into
    \* communicationLogs, page.tsx 316
    addedLogs,
    \* the profile page under a route whose studentId changes: the route
    \* parameter, the GETs of the two effects in flight, the id of the
    \* profile held in student, the student_id of each entry held in
    \* communicationLogs, loading, error, and the route changes so far
    studentId, routeReqs, routeStudent, routeLogs, routeLoading, routeError,
    navigations

uiVars == <<student, loading, error, notes, selectedTags, isEmailModalOpen,
            toasts, isAddLogModalOpen, communicationLogs, newLogType,
            newLogContent, aiSummary, isGeneratingSummary>>
netVars == <<studentFetch, logsFetch, tagReqs, noteReqs, logReqs, emailReqs, aiReqs>>
envVars == <<timers, now, srvLogs, srvLogId, nextId>>
loginVars == <<impl, lpc, formData, response, cookieJar, result, thrown,
               effects, logins>>
dirVars == <<students, dirLoading, dirError, search, status, country,
             filterTags, dirFetch>>
statsVars == <<stats, isLoading, isError, statsFetch>>
apiVars == <<apiCall, apiRequests, apiResponse, apiOutcome>>
routeVars == <<studentId, routeReqs, routeStudent, routeLogs, routeLoading,
               routeError, navigations>>
moreVars == <<statsVars, apiVars, addedLogs, routeVars>>
offPageVars == <<loginVars, dirVars, moreVars>>
vars == <<uiVars, netVars, envVars, ev, settled, offPageVars>>

Event(op, id) == [op |-> op, id |-> id]
Outcome(op, id, answer) == [op |-> op, id |-> id, answer |-> answer]

\* ------------------------------------------------------------------- toasts
\* showToast, page.tsx 100-109: the list after posting.
Posted(type, msg) == Append(toasts, [id |-> now, type |-> type, message |-> msg])

\* setTimeout(..., 3000) of showToast, page.tsx 106-108.
ToastDelay == 3000
\* The whole effect of showToast: append, and start the one-shot timer.
\* No handler lets ToastDelay ms pass between two of its steps, so the
\* timers are kept in the order they fall due and not with their due time.
showToast(type, msg) ==
    /\ toasts' = Posted(type, msg)
    /\ timers' = Append(timers, [id |-> now, dismissed |-> FALSE])

\* interface CommunicationLog, page.tsx 37-43.
Log(id, type, content) == [id |-> id, type |-> type, content |-> content]
\* The backend's log of the student when the page is opened.
InitialLogs == <<Log(0, "Call", Null)>>

Init ==
    /\ student = Null
    /\ loading = TRUE
    /\ error = Null
    /\ notes = ""
    /\ selectedTags = <<>>
    /\ isEmailModalOpen = FALSE
    /\ toasts = <<>>
    /\ isAddLogModalOpen = FALSE
    /\ communicationLogs = <<>>
    /\ newLogType = "Email"
    /\ newLogContent = ""
    /\ aiSummary = Null
    /\ isGeneratingSummary = FALSE
    /\ studentFetch = TRUE
    /\ logsFetch = [ph |-> "sent", snap |-> <<>>]
    /\ tagReqs = {}
    /\ noteReqs = {}
    /\ logReqs = {}
    /\ emailReqs = {}
    /\ aiReqs = {}
    /\ timers = <<>>
    /\ now = 0
    /\ srvLogs = InitialLogs
    /\ srvLogId = 1
    /\ nextId = 0
    /\ ev = Event("mount", 0)
    /\ settled = <<>>
    /\ impl = "none"
    /\ lpc = "idle"
    /\ formData = Null
    /\ response = Null
    /\ cookieJar = Null
    /\ result = Null
    /\ thrown = Null
    /\ effects = <<>>
    /\ logins = 0
    /\ students = <<>>
    /\ dirLoading = TRUE
    /\ dirError = Null
    /\ search = <<>>
    /\ status = "all"
    /\ country = "all"
    /\ filterTags = <<>>
    /\ dirFetch = TRUE
    /\ stats = Null
    /\ isLoading = TRUE
    /\ isError = FALSE
    /\ statsFetch = TRUE
    /\ apiCall = Null
    /\ apiRequests = 0
    /\ apiResponse = Null
    /\ apiOutcome = Null
    /\ addedLogs = {}
    /\ studentId = "s1"
    /\ routeReqs = {[kind |-> "profile", id |-> "s1", n |-> 0],
                    [kind |-> "logs", id |-> "s1", n |-> 0]}
    /\ routeStudent = Null
    /\ routeLogs = <<>>
    /\ routeLoading = TRUE
    /\ routeError = Null
    /\ navigations = 0

\* The profile markup is rendered (none of the early returns of 331-341).
Displayed == ~loading /\ error = Null /\ student # Null

\* ------------------------------------------------------------- fetchStudent
FetchStudentOk(data) ==
    /\ studentFetch
    /\ studentFetch' = FALSE
    /\ student' = Some(data)
    /\ selectedTags' = OrElse(data.tags, <<>>)
    /\ notes' = OrElse(data.internal_notes, "")
    /\ loading' = FALSE
    /\ ev' = Event("FetchStudentOk", 0)
    /\ UNCHANGED offPageVars
    /\ settled' = Append(settled, Outcome("FetchStudentOk", 0, Some(data)))
    /\ UNCHANGED <<error, isEmailModalOpen, toasts, isAddLogModalOpen,
                   communicationLogs, newLogType, newLogContent, aiSummary,
                   isGeneratingSummary>>
    /\ UNCHANGED <<logsFetch, tagReqs, noteReqs, logReqs, emailReqs, aiReqs>>
    /\ UNCHANGED envVars

FetchStudentFail ==
    /\ studentFetch
    /\ studentFetch' = FALSE
    /\ error' = Some("HTTP error")
    /\ loading' = FALSE
    /\ ev' = Event("FetchStudentFail", 0)
    /\ UNCHANGED offPageVars
    /\ settled' = Append(settled, Outcome("FetchStudentFail", 0, Null))
    /\ UNCHANGED <<student, notes, selectedTags, isEmailModalOpen, toasts,
                   isAddLogModalOpen, communicationLogs, newLogType,
                   newLogContent, aiSummary, isGeneratingSummary>>
    /\ UNCHANGED <<logsFetch, tagReqs, noteReqs, logReqs, emailReqs, aiReqs>>
    /\ UNCHANGED envVars

\* ------------------------------------------------- fetchCommunicationLogs
\* The backend answers GET /students/{id}/communications: the response
\* carries the log as it is when the backend handles the request.
SrvLogsFetch(ok) ==
    /\ logsFetch.ph = "sent"
    /\ logsFetch' = IF ok THEN [ph |-> "ok", snap |-> srvLogs]
                          ELSE [ph |-> "fail", snap |-> <<>>]
    /\ ev' = Event("backend", 0)
    /\ UNCHANGED offPageVars
    /\ UNCHANGED settled
    /\ UNCHANGED uiVars
    /\ UNCHANGED <<studentFetch, tagReqs, noteReqs, logReqs, emailReqs, aiReqs>>
    /\ UNCHANGED envVars

FetchLogsOk ==
    /\ logsFetch.ph = "ok"
    /\ communicationLogs' = logsFetch.snap
    /\ logsFetch' = [ph |-> "done", snap |-> <<>>]
    /\ ev' = Event("FetchLogsOk", 0)
    /\ UNCHANGED offPageVars
    /\ UNCHANGED settled
    /\ UNCHANGED <<student, loading, error, notes, selectedTags,
                   isEmailModalOpen, toasts, isAddLogModalOpen, newLogType,
                   newLogContent, aiSummary, isGeneratingSummary>>
    /\ UNCHANGED <<studentFetch, tagReqs, noteReqs, logReqs, emailReqs, aiReqs>>
    /\ UNCHANGED envVars

\* catch: console.error only.
FetchLogsFail ==
    /\ logsFetch.ph = "fail"
    /\ logsFetch' = [ph |-> "done", snap |-> <<>>]
    /\ ev' = Event("FetchLogsFail", 0)
    /\ UNCHANGED offPageVars
    /\ UNCHANGED settled
    /\ UNCHANGED uiVars
    /\ UNCHANGED <<studentFetch, tagReqs, noteReqs, logReqs, emailReqs, aiReqs>>
    /\ UNCHANGED envVars

\* ---------------------------------------------------------- handleTagChange
\* NewTags with the two branches of the conditional exchanged.
NewTagsSwapped(tag, isChecked) ==
    IF isChecked THEN Without(selectedTags, tag) ELSE Append(selectedTags, tag)

\* The array the handler computes from the rendered selectedTags, 260-262.
NewTags(tag, isChecked) ==
    IF isChecked THEN Append(selectedTags, tag) ELSE Without(selectedTags, tag)

\* Checked for a box that is not bound to selectedTags and always reports
\* "checked".
CheckedUncontrolled(tag) == TRUE

\* The value onCheckedChange passes for a click on the box of `tag`: the
\* box is controlled by checked={selectedTags.includes(tag)}, 570-574.
Checked(tag) == ~Includes(selectedTags, tag)

\* TagsBody sending the toggled tag alone (a delta).
TagsBodyDelta(newTags, tag) == <<tag>>

\* The body of the PATCH /students/{id}/tags request, 275-277.
TagsBody(newTags, tag) == newTags

\* The event part: optimistic update and the request.  The request keeps
\* what the continuation closes over (student), and `before`, the
\* selectedTags of the render the click happened in.
handleTagChange(tag, isChecked) ==
    /\ Displayed
    /\ nextId < MaxOps
    /\ isChecked = Checked(tag)
    /\ LET newTags == NewTags(tag, isChecked)
       IN  /\ selectedTags' = newTags
           /\ tagReqs' = tagReqs \cup
                 {[id |-> nextId, tag |-> tag, isChecked |-> isChecked,
                   body |-> TagsBody(newTags, tag), student |-> student,
                   before |-> selectedTags]}
    /\ nextId' = nextId + 1
    /\ ev' = Event("handleTagChange", nextId)
    /\ UNCHANGED offPageVars
    /\ UNCHANGED settled
    /\ UNCHANGED <<student, loading, error, notes, isEmailModalOpen, toasts,
                   isAddLogModalOpen, communicationLogs, newLogType,
                   newLogContent, aiSummary, isGeneratingSummary>>
    /\ UNCHANGED <<studentFetch, logsFetch, noteReqs, logReqs, emailReqs, aiReqs>>
    /\ UNCHANGED <<timers, now, srvLogs, srvLogId>>

\* TagOk that drops the answer of a request issued before one whose answer
\* was already applied (issue order wins instead of arrival order).
TagOkNewestOnly(r, updatedStudent) ==
    /\ r \in tagReqs
    /\ tagReqs' = tagReqs \ {r}
    /\ student' = IF \E i \in 1..Len(settled) :
                        settled[i].op = "TagOk" /\ settled[i].id > r.id
                  THEN student ELSE Some(updatedStudent)
    /\ ev' = Event("TagOk", r.id)
    /\ UNCHANGED offPageVars
    /\ settled' = Append(settled, Outcome("TagOk", r.id, Some(updatedStudent)))
    /\ UNCHANGED <<loading, error, notes, selectedTags, isEmailModalOpen,
                   toasts, isAddLogModalOpen, communicationLogs, newLogType,
                   newLogContent, aiSummary, isGeneratingSummary>>
    /\ UNCHANGED <<studentFetch, logsFetch, noteReqs, logReqs, emailReqs, aiReqs>>
    /\ UNCHANGED envVars

\* response.ok: setStudent(updatedStudent), 286-287.
TagOk(r, updatedStudent) ==
    /\ r \in tagReqs
    /\ tagReqs' = tagReqs \ {r}
    /\ student' = Some(updatedStudent)
    /\ ev' = Event("TagOk", r.id)
    /\ UNCHANGED offPageVars
    /\ settled' = Append(settled, Outcome("TagOk", r.id, Some(updatedStudent)))
    /\ UNCHANGED <<loading, error, notes, selectedTags, isEmailModalOpen,
                   toasts, isAddLogModalOpen, communicationLogs, newLogType,
                   newLogContent, aiSummary, isGeneratingSummary>>
    /\ UNCHANGED <<studentFetch, logsFetch, noteReqs, logReqs, emailReqs, aiReqs>>
    /\ UNCHANGED envVars

\* What the catch block puts back, 291: the tags of the student the
\* handler closed over.
Reverted(r) == IF r.student = Null THEN <<>> ELSE OrElse(r.student[1].tags, <<>>)

\* catch (non-2xx, rejected fetch, or a body that does not parse), 288-293.
TagFail(r) ==
    /\ r \in tagReqs
    /\ tagReqs' = tagReqs \ {r}
    /\ selectedTags' = Reverted(r)
    /\ showToast("error", "Error: tags")
    /\ ev' = Event("TagFail", r.id)
    /\ UNCHANGED offPageVars
    /\ settled' = Append(settled, Outcome("TagFail", r.id, Null))
    /\ UNCHANGED <<student, loading, error, notes, isEmailModalOpen,
                   isAddLogModalOpen, communicationLogs, newLogType,
                   newLogContent, aiSummary, isGeneratingSummary>>
    /\ UNCHANGED <<studentFetch, logsFetch, noteReqs, logReqs, emailReqs, aiReqs>>
    /\ UNCHANGED <<now, srvLogs, srvLogId, nextId>>

\* ---------------------------------------------------------- notes handlers
handleNotesChange(value) ==
    /\ Displayed
    /\ notes # value
    /\ notes' = value
    /\ ev' = Event("ui", 0)
    /\ UNCHANGED offPageVars
    /\ UNCHANGED settled
    /\ UNCHANGED <<student, loading, error, selectedTags, isEmailModalOpen,
                   toasts, isAddLogModalOpen, communicationLogs, newLogType,
                   newLogContent, aiSummary, isGeneratingSummary>>
    /\ UNCHANGED netVars
    /\ UNCHANGED envVars

handleSaveNotes ==
    /\ Displayed
    /\ nextId < MaxOps
    /\ noteReqs' = noteReqs \cup {[id |-> nextId, body |-> notes, student |-> student]}
    /\ nextId' = nextId + 1
    /\ ev' = Event("handleSaveNotes", nextId)
    /\ UNCHANGED offPageVars
    /\ UNCHANGED settled
    /\ UNCHANGED uiVars
    /\ UNCHANGED <<studentFetch, logsFetch, tagReqs, logReqs, emailReqs, aiReqs>>
    /\ UNCHANGED <<timers, now, srvLogs, srvLogId>>

\* NotesOk that copies only internal_notes out of the returned profile.
NotesOkNotesOnly(r, updatedStudent) ==
    /\ r \in noteReqs
    /\ noteReqs' = noteReqs \ {r}
    /\ student' = IF student = Null THEN Some(updatedStudent)
                  ELSE Some([student[1] EXCEPT
                               !.internal_notes = updatedStudent.internal_notes])
    /\ showToast("success", "Notes saved successfully!")
    /\ ev' = Event("NotesOk", r.id)
    /\ UNCHANGED offPageVars
    /\ settled' = Append(settled, Outcome("NotesOk", r.id, Some(updatedStudent)))
    /\ UNCHANGED <<loading, error, notes, selectedTags, isEmailModalOpen,
                   isAddLogModalOpen, communicationLogs, newLogType,
                   newLogContent, aiSummary, isGeneratingSummary>>
    /\ UNCHANGED <<studentFetch, logsFetch, tagReqs, logReqs, emailReqs, aiReqs>>
    /\ UNCHANGED <<now, srvLogs, srvLogId, nextId>>

\* response.ok: setStudent(updatedStudent) and the success toast, 245-247.
NotesOk(r, updatedStudent) ==
    /\ r \in noteReqs
    /\ noteReqs' = noteReqs \ {r}
    /\ student' = Some(updatedStudent)
    /\ showToast("success", "Notes saved successfully!")
    /\ ev' = Event("NotesOk", r.id)
    /\ UNCHANGED offPageVars
    /\ settled' = Append(settled, Outcome("NotesOk", r.id, Some(updatedStudent)))
    /\ UNCHANGED <<loading, error, notes, selectedTags, isEmailModalOpen,
                   isAddLogModalOpen, communicationLogs, newLogType,
                   newLogContent, aiSummary, isGeneratingSummary>>
    /\ UNCHANGED <<studentFetch, logsFetch, tagReqs, logReqs, emailReqs, aiReqs>>
    /\ UNCHANGED <<now, srvLogs, srvLogId, nextId>>

NotesFail(r) ==
    /\ r \in noteReqs
    /\ noteReqs' = noteReqs \ {r}
    /\ showToast("error", "Failed to save notes. Please try again.")
    /\ ev' = Event("NotesFail", r.id)
    /\ UNCHANGED offPageVars
    /\ settled' = Append(settled, Outcome("NotesFail", r.id, Null))
    /\ UNCHANGED <<student, loading, error, notes, selectedTags,
                   isEmailModalOpen, isAddLogModalOpen, communicationLogs,
                   newLogType, newLogContent, aiSummary, isGeneratingSummary>>
    /\ UNCHANGED <<studentFetch, logsFetch, tagReqs, logReqs, emailReqs, aiReqs>>
    /\ UNCHANGED <<now, srvLogs, srvLogId, nextId>>

\* ------------------------------------------------- add-log modal and form
\* "+ Add Log", 612-617.
openAddLogModal ==
    /\ Displayed
    /\ ~isAddLogModalOpen
    /\ isAddLogModalOpen' = TRUE
    /\ ev' = Event("ui", 0)
    /\ UNCHANGED offPageVars
    /\ UNCHANGED <<student, loading, error, notes, selectedTags,
                   isEmailModalOpen, toasts, communicationLogs, newLogType,
                   newLogContent, aiSummary, isGeneratingSummary>>
    /\ UNCHANGED <<netVars, envVars, settled>>

\* Cancel, or the dialog's onOpenChange(false), 703 and 743-748.
closeAddLogModal ==
    /\ Displayed
    /\ isAddLogModalOpen
    /\ isAddLogModalOpen' = FALSE
    /\ ev' = Event("ui", 0)
    /\ UNCHANGED offPageVars
    /\ UNCHANGED <<student, loading, error, notes, selectedTags,
                   isEmailModalOpen, toasts, communicationLogs, newLogType,
                   newLogContent, aiSummary, isGeneratingSummary>>
    /\ UNCHANGED <<netVars, envVars, settled>>

\* The <select> and the description box of the form, 715-735.
editLogForm(type, content) ==
    /\ Displayed
    /\ isAddLogModalOpen
    /\ <<type, content>> # <<newLogType, newLogContent>>
    /\ newLogType' = type
    /\ newLogContent' = content
    /\ ev' = Event("ui", 0)
    /\ UNCHANGED offPageVars
    /\ UNCHANGED <<student, loading, error, notes, selectedTags,
                   isEmailModalOpen, toasts, isAddLogModalOpen,
                   communicationLogs, aiSummary, isGeneratingSummary>>
    /\ UNCHANGED <<netVars, envVars, settled>>

\* -------------------------------------------------------------- handleAddLog
\* The event part, 296-308: the POST is issued, nothing else is set.
handleAddLog ==
    /\ Displayed
    /\ isAddLogModalOpen
    /\ nextId < MaxOps
    /\ logReqs' = logReqs \cup
          {[id |-> nextId, type |-> newLogType, content |-> newLogContent,
            ph |-> "post", resp |-> Null]}
    /\ nextId' = nextId + 1
    /\ ev' = Event("handleAddLog", nextId)
    /\ UNCHANGED offPageVars
    /\ UNCHANGED uiVars
    /\ UNCHANGED <<studentFetch, logsFetch, tagReqs, noteReqs, emailReqs, aiReqs>>
    /\ UNCHANGED <<timers, now, srvLogs, srvLogId, settled>>

\* The backend handles POST /students/{id}/communication: it stores the
\* entry under an id of its own and answers with it (stored, delivered),
\* stores it but the answer is lost (stored, not delivered), or refuses.
SrvAddLog(r, stored, delivered) ==
    /\ r \in logReqs
    /\ r.ph = "post"
    /\ delivered => stored
    /\ LET entry == Log(srvLogId, r.type, Some(r.content))
       IN  /\ srvLogs' = IF stored THEN <<entry>> \o srvLogs ELSE srvLogs
           /\ srvLogId' = IF stored THEN srvLogId + 1 ELSE srvLogId
           /\ logReqs' = (logReqs \ {r}) \cup
                 {IF delivered THEN [r EXCEPT !.ph = "ok", !.resp = Some(entry)]
                               ELSE [r EXCEPT !.ph = "fail"]}
    /\ ev' = Event("backend", r.id)
    /\ UNCHANGED offPageVars
    /\ UNCHANGED uiVars
    /\ UNCHANGED <<studentFetch, logsFetch, tagReqs, noteReqs, emailReqs, aiReqs>>
    /\ UNCHANGED <<timers, now, nextId, settled>>

\* AddLogOk putting the new entry after the entries already listed.
AddLogOkAppend(r) ==
    /\ r \in logReqs
    /\ r.ph = "ok"
    /\ logReqs' = logReqs \ {r}
    /\ communicationLogs' = Append(communicationLogs, r.resp[1])
    /\ newLogType' = "Email"
    /\ newLogContent' = ""
    /\ isAddLogModalOpen' = FALSE
    /\ showToast("success", "Communication log added successfully!")
    /\ ev' = Event("AddLogOk", r.id)
    /\ addedLogs' = addedLogs \cup {r.resp[1]}
    /\ UNCHANGED <<loginVars, dirVars, statsVars, apiVars, routeVars>>
    /\ UNCHANGED <<student, loading, error, notes, selectedTags,
                   isEmailModalOpen, aiSummary, isGeneratingSummary>>
    /\ UNCHANGED <<studentFetch, logsFetch, tagReqs, noteReqs, emailReqs, aiReqs>>
    /\ UNCHANGED <<now, srvLogs, srvLogId, nextId, settled>>

\* response.ok, 314-324.
AddLogOk(r) ==
    /\ r \in logReqs
    /\ r.ph = "ok"
    /\ logReqs' = logReqs \ {r}
    /\ communicationLogs' = <<r.resp[1]>> \o communicationLogs
    /\ newLogType' = "Email"
    /\ newLogContent' = ""
    /\ isAddLogModalOpen' = FALSE
    /\ showToast("success", "Communication log added successfully!")
    /\ ev' = Event("AddLogOk", r.id)
    /\ addedLogs' = addedLogs \cup {r.resp[1]}
    /\ UNCHANGED <<loginVars, dirVars, statsVars, apiVars, routeVars>>
    /\ UNCHANGED <<student, loading, error, notes, selectedTags,
                   isEmailModalOpen, aiSummary, isGeneratingSummary>>
    /\ UNCHANGED <<studentFetch, logsFetch, tagReqs, noteReqs, emailReqs, aiReqs>>
    /\ UNCHANGED <<now, srvLogs, srvLogId, nextId, settled>>

\* catch, 325-328.
AddLogFail(r) ==
    /\ r \in logReqs
    /\ r.ph = "fail"
    /\ logReqs' = logReqs \ {r}
    /\ showToast("error", "Failed to add communication log. Please try again.")
    /\ ev' = Event("AddLogFail", r.id)
    /\ UNCHANGED offPageVars
    /\ UNCHANGED <<student, loading, error, notes, selectedTags,
                   isEmailModalOpen, isAddLogModalOpen, communicationLogs,
                   newLogType, newLogContent, aiSummary, isGeneratingSummary>>
    /\ UNCHANGED <<studentFetch, logsFetch, tagReqs, noteReqs, emailReqs, aiReqs>>
    /\ UNCHANGED <<now, srvLogs, srvLogId, nextId, settled>>

\* ------------------------------------------------------------ follow-up email
\* handleSendEmail, 174-194 (emailContent is never read by the send).
handleSendEmail ==
    /\ Displayed
    /\ ~isEmailModalOpen
    /\ isEmailModalOpen' = TRUE
    /\ ev' = Event("ui", 0)
    /\ UNCHANGED offPageVars
    /\ UNCHANGED <<student, loading, error, notes, selectedTags, toasts,
                   isAddLogModalOpen, communicationLogs, newLogType,
                   newLogContent, aiSummary, isGeneratingSummary>>
    /\ UNCHANGED <<netVars, envVars, settled>>

\* Cancel, or the dialog's onOpenChange(false), 646 and 684-689.
closeEmailModal ==
    /\ Displayed
    /\ isEmailModalOpen
    /\ isEmailModalOpen' = FALSE
    /\ ev' = Event("ui", 0)
    /\ UNCHANGED offPageVars
    /\ UNCHANGED <<student, loading, error, notes, selectedTags, toasts,
                   isAddLogModalOpen, communicationLogs, newLogType,
                   newLogContent, aiSummary, isGeneratingSummary>>
    /\ UNCHANGED <<netVars, envVars, settled>>

\* The event part of handleSendEmailConfirm, 196-204: the POST is issued.
\* posts and gets count the requests this confirmation has issued.
handleSendEmailConfirm ==
    /\ Displayed
    /\ isEmailModalOpen
    /\ nextId < MaxOps
    /\ emailReqs' = emailReqs \cup
          {[id |-> nextId, ph |-> "post", snap |-> <<>>, posts |-> 1, gets |-> 0]}
    /\ nextId' = nextId + 1
    /\ ev' = Event("handleSendEmailConfirm", nextId)
    /\ UNCHANGED offPageVars
    /\ UNCHANGED uiVars
    /\ UNCHANGED <<studentFetch, logsFetch, tagReqs, noteReqs, logReqs, aiReqs>>
    /\ UNCHANGED <<timers, now, srvLogs, srvLogId, settled>>

\* The backend handles POST /students/{id}/email: a sent email is logged
\* by the backend itself.
SrvEmail(r, stored, delivered) ==
    /\ r \in emailReqs
    /\ r.ph = "post"
    /\ delivered => stored
    /\ srvLogs' = IF stored THEN <<Log(srvLogId, "Email", Some("follow-up"))>> \o srvLogs
                            ELSE srvLogs
    /\ srvLogId' = IF stored THEN srvLogId + 1 ELSE srvLogId
    /\ emailReqs' = (emailReqs \ {r}) \cup
          {[r EXCEPT !.ph = IF delivered THEN "postOk" ELSE "postFail"]}
    /\ ev' = Event("backend", r.id)
    /\ UNCHANGED offPageVars
    /\ UNCHANGED uiVars
    /\ UNCHANGED <<studentFetch, logsFetch, tagReqs, noteReqs, logReqs, aiReqs>>
    /\ UNCHANGED <<timers, now, nextId, settled>>

\* EmailSendFail that goes on to the re-fetch although the send failed.
EmailSendFailRefetch(r) ==
    /\ r \in emailReqs
    /\ r.ph = "postFail"
    /\ emailReqs' = (emailReqs \ {r}) \cup
          {[r EXCEPT !.ph = "get", !.gets = r.gets + 1]}
    /\ showToast("error", "Failed to send email. Please try again.")
    /\ ev' = Event("EmailSendFail", r.id)
    /\ UNCHANGED offPageVars
    /\ UNCHANGED <<student, loading, error, notes, selectedTags,
                   isEmailModalOpen, isAddLogModalOpen, communicationLogs,
                   newLogType, newLogContent, aiSummary, isGeneratingSummary>>
    /\ UNCHANGED <<studentFetch, logsFetch, tagReqs, noteReqs, logReqs, aiReqs>>
    /\ UNCHANGED <<now, srvLogs, srvLogId, nextId, settled>>

\* The send failed: throw at 206-208 or a rejected fetch; catch, 220-223.
EmailSendFail(r) ==
    /\ r \in emailReqs
    /\ r.ph = "postFail"
    /\ emailReqs' = emailReqs \ {r}
    /\ showToast("error", "Failed to send email. Please try again.")
    /\ ev' = Event("EmailSendFail", r.id)
    /\ UNCHANGED offPageVars
    /\ UNCHANGED <<student, loading, error, notes, selectedTags,
                   isEmailModalOpen, isAddLogModalOpen, communicationLogs,
                   newLogType, newLogContent, aiSummary, isGeneratingSummary>>
    /\ UNCHANGED <<studentFetch, logsFetch, tagReqs, noteReqs, logReqs, aiReqs>>
    /\ UNCHANGED <<now, srvLogs, srvLogId, nextId, settled>>

\* The send succeeded: the continuation issues the re-fetch, 210-211.
EmailSendOk(r) ==
    /\ r \in emailReqs
    /\ r.ph = "postOk"
    /\ emailReqs' = (emailReqs \ {r}) \cup
          {[r EXCEPT !.ph = "get", !.gets = r.gets + 1]}
    /\ ev' = Event("EmailSendOk", r.id)
    /\ UNCHANGED offPageVars
    /\ UNCHANGED uiVars
    /\ UNCHANGED <<studentFetch, logsFetch, tagReqs, noteReqs, logReqs, aiReqs>>
    /\ UNCHANGED <<envVars, settled>>

\* The backend handles the re-fetch: "ok" answers with the log as it is
\* now, "status" is a non-2xx answer, "throw" a rejected fetch or a body
\* that does not parse.
SrvEmailRefetch(r, outcome) ==
    /\ r \in emailReqs
    /\ r.ph = "get"
    /\ emailReqs' = (emailReqs \ {r}) \cup
          {CASE outcome = "ok" -> [r EXCEPT !.ph = "getOk", !.snap = srvLogs]
             [] outcome = "status" -> [r EXCEPT !.ph = "getStatus"]
             [] outcome = "throw" -> [r EXCEPT !.ph = "getThrow"]}
    /\ ev' = Event("backend", r.id)
    /\ UNCHANGED offPageVars
    /\ UNCHANGED uiVars
    /\ UNCHANGED <<studentFetch, logsFetch, tagReqs, noteReqs, logReqs, aiReqs>>
    /\ UNCHANGED <<envVars, settled>>

\* logResponse.ok, 212-219.
EmailRefetchOk(r) ==
    /\ r \in emailReqs
    /\ r.ph = "getOk"
    /\ emailReqs' = emailReqs \ {r}
    /\ communicationLogs' = r.snap
    /\ isEmailModalOpen' = FALSE
    /\ showToast("success", "Email sent successfully")
    /\ ev' = Event("EmailRefetchOk", r.id)
    /\ UNCHANGED offPageVars
    /\ UNCHANGED <<student, loading, error, notes, selectedTags,
                   isAddLogModalOpen, newLogType, newLogContent, aiSummary,
                   isGeneratingSummary>>
    /\ UNCHANGED <<studentFetch, logsFetch, tagReqs, noteReqs, logReqs, aiReqs>>
    /\ UNCHANGED <<now, srvLogs, srvLogId, nextId, settled>>

\* !logResponse.ok: the list is kept, 212 and 217-219.
EmailRefetchStatus(r) ==
    /\ r \in emailReqs
    /\ r.ph = "getStatus"
    /\ emailReqs' = emailReqs \ {r}
    /\ isEmailModalOpen' = FALSE
    /\ showToast("success", "Email sent successfully")
    /\ ev' = Event("EmailRefetchStatus", r.id)
    /\ UNCHANGED offPageVars
    /\ UNCHANGED <<student, loading, error, notes, selectedTags,
                   isAddLogModalOpen, communicationLogs, newLogType,
                   newLogContent, aiSummary, isGeneratingSummary>>
    /\ UNCHANGED <<studentFetch, logsFetch, tagReqs, noteReqs, logReqs, aiReqs>>
    /\ UNCHANGED <<now, srvLogs, srvLogId, nextId, settled>>

\* The re-fetch threw: the same catch as a failed send, 220-223.
EmailRefetchThrow(r) ==
    /\ r \in emailReqs
    /\ r.ph = "getThrow"
    /\ emailReqs' = emailReqs \ {r}
    /\ showToast("error", "Failed to send email. Please try again.")
    /\ ev' = Event("EmailRefetchThrow", r.id)
    /\ UNCHANGED offPageVars
    /\ UNCHANGED <<student, loading, error, notes, selectedTags,
                   isEmailModalOpen, isAddLogModalOpen, communicationLogs,
                   newLogType, newLogContent, aiSummary, isGeneratingSummary>>
    /\ UNCHANGED <<studentFetch, logsFetch, tagReqs, noteReqs, logReqs, aiReqs>>
    /\ UNCHANGED <<now, srvLogs, srvLogId, nextId, settled>>

\* ------------------------------------------------------------ fetchAiSummary
\* AiButtonEnabled for a button without the disabled attribute.
AiButtonAlwaysEnabled == TRUE

\* The Generate button can be clicked: disabled={isGeneratingSummary}, 394-397.
AiButtonEnabled == ~isGeneratingSummary

\* The event part, 155-158: the flag is set and the GET is issued.
fetchAiSummary ==
    /\ Displayed
    /\ AiButtonEnabled
    /\ nextId < MaxOps
    /\ isGeneratingSummary' = TRUE
    /\ aiReqs' = aiReqs \cup {[id |-> nextId]}
    /\ nextId' = nextId + 1
    /\ ev' = Event("fetchAiSummary", nextId)
    /\ UNCHANGED offPageVars
    /\ UNCHANGED <<student, loading, error, notes, selectedTags,
                   isEmailModalOpen, toasts, isAddLogModalOpen,
                   communicationLogs, newLogType, newLogContent, aiSummary>>
    /\ UNCHANGED <<studentFetch, logsFetch, tagReqs, noteReqs, logReqs, emailReqs>>
    /\ UNCHANGED <<timers, now, srvLogs, srvLogId, settled>>

\* AiOk without the finally block: the flag stays set.
AiOkKeepsFlag(r, summary) ==
    /\ r \in aiReqs
    /\ aiReqs' = aiReqs \ {r}
    /\ aiSummary' = Some(summary)
    /\ showToast("success", "AI Summary generated successfully!")
    /\ ev' = Event("AiOk", r.id)
    /\ UNCHANGED offPageVars
    /\ settled' = Append(settled, Outcome("AiOk", r.id, Some(summary)))
    /\ UNCHANGED <<student, loading, error, notes, selectedTags,
                   isEmailModalOpen, isAddLogModalOpen, communicationLogs,
                   newLogType, newLogContent, isGeneratingSummary>>
    /\ UNCHANGED <<studentFetch, logsFetch, tagReqs, noteReqs, logReqs, emailReqs>>
    /\ UNCHANGED <<now, srvLogs, srvLogId, nextId>>

\* response.ok, 162-164, then finally, 169-171.
AiOk(r, summary) ==
    /\ r \in aiReqs
    /\ aiReqs' = aiReqs \ {r}
    /\ aiSummary' = Some(summary)
    /\ showToast("success", "AI Summary generated successfully!")
    /\ isGeneratingSummary' = FALSE
    /\ ev' = Event("AiOk", r.id)
    /\ UNCHANGED offPageVars
    /\ settled' = Append(settled, Outcome("AiOk", r.id, Some(summary)))
    /\ UNCHANGED <<student, loading, error, notes, selectedTags,
                   isEmailModalOpen, isAddLogModalOpen, communicationLogs,
                   newLogType, newLogContent>>
    /\ UNCHANGED <<studentFetch, logsFetch, tagReqs, noteReqs, logReqs, emailReqs>>
    /\ UNCHANGED <<now, srvLogs, srvLogId, nextId>>

\* AiFail that keeps the summary shown before instead of the fallback.
AiFailKeepsSummary(r) ==
    /\ r \in aiReqs
    /\ aiReqs' = aiReqs \ {r}
    /\ showToast("error", "Failed to generate AI summary. Please try again.")
    /\ isGeneratingSummary' = FALSE
    /\ ev' = Event("AiFail", r.id)
    /\ UNCHANGED offPageVars
    /\ settled' = Append(settled, Outcome("AiFail", r.id, Null))
    /\ UNCHANGED <<student, loading, error, notes, selectedTags, aiSummary,
                   isEmailModalOpen, isAddLogModalOpen, communicationLogs,
                   newLogType, newLogContent>>
    /\ UNCHANGED <<studentFetch, logsFetch, tagReqs, noteReqs, logReqs, emailReqs>>
    /\ UNCHANGED <<now, srvLogs, srvLogId, nextId>>

\* catch, 165-168, then finally, 169-171.
AiFail(r) ==
    /\ r \in aiReqs
    /\ aiReqs' = aiReqs \ {r}
    /\ aiSummary' = Some(FallbackSummary)
    /\ showToast("error", "Failed to generate AI summary. Please try again.")
    /\ isGeneratingSummary' = FALSE
    /\ ev' = Event("AiFail", r.id)
    /\ UNCHANGED offPageVars
    /\ settled' = Append(settled, Outcome("AiFail", r.id, Null))
    /\ UNCHANGED <<student, loading, error, notes, selectedTags,
                   isEmailModalOpen, isAddLogModalOpen, communicationLogs,
                   newLogType, newLogContent>>
    /\ UNCHANGED <<studentFetch, logsFetch, tagReqs, noteReqs, logReqs, emailReqs>>
    /\ UNCHANGED <<now, srvLogs, srvLogId, nextId>>

\* ------------------------------------------------------- toasts and the clock
\* Array.prototype.filter(toast => toast.id !== id), 107 and 112.
WithoutId(ts, id) == SelectSeq(ts, LAMBDA t : t.id # id)

\* The timer callback of the oldest showToast not yet expired, 106-108.
TimerFire ==
    /\ timers # <<>>
    /\ timers' = Tail(timers)
    /\ toasts' = WithoutId(toasts, Head(timers).id)
    /\ ev' = Event("TimerFire", Head(timers).id)
    /\ UNCHANGED offPageVars
    /\ UNCHANGED <<student, loading, error, notes, selectedTags,
                   isEmailModalOpen, isAddLogModalOpen, communicationLogs,
                   newLogType, newLogContent, aiSummary, isGeneratingSummary>>
    /\ UNCHANGED <<netVars, now, srvLogs, srvLogId, nextId, settled>>

\* The X button of a toast on screen, 373-376 and 111-113.
removeToast(id) ==
    /\ \E i \in 1..Len(toasts) : toasts[i].id = id
    /\ toasts' = WithoutId(toasts, id)
    /\ timers' = [i \in DOMAIN timers |->
                    IF timers[i].id = id
                    THEN [timers[i] EXCEPT !.dismissed = TRUE] ELSE timers[i]]
    /\ ev' = Event("removeToast", id)
    /\ UNCHANGED offPageVars
    /\ UNCHANGED <<student, loading, error, notes, selectedTags,
                   isEmailModalOpen, isAddLogModalOpen, communicationLogs,
                   newLogType, newLogContent, aiSummary, isGeneratingSummary>>
    /\ UNCHANGED <<netVars, now, srvLogs, srvLogId, nextId, settled>>

\* A millisecond passes.
Tick ==
    /\ now < MaxClock
    /\ now' = now + 1
    /\ ev' = Event("ui", 0)
    /\ UNCHANGED offPageVars
    /\ UNCHANGED <<uiVars, netVars, timers, srvLogs, srvLogId, nextId, settled>>

\* The profile, its tags and its notes.
TagsNext ==
    \/ \E data \in Profiles : FetchStudentOk(data)
    \/ FetchStudentFail
    \/ \E tag \in availableTags, isChecked \in BOOLEAN : handleTagChange(tag, isChecked)
    \/ \E r \in tagReqs : \E p \in TagAnswers(r) : TagOk(r, p)
    \/ \E r \in tagReqs : TagFail(r)
    \/ \E value \in NoteTexts : handleNotesChange(value)
    \/ handleSaveNotes
    \/ \E r \in noteReqs : \E p \in NoteAnswers(r) : NotesOk(r, p)
    \/ \E r \in noteReqs : NotesFail(r)

Spec == Init /\ [][TagsNext]_vars

\* The communication log: its fetch, the add-log form, the follow-up email.
LogsNext ==
    \/ \E data \in {Student(Null, Null)} : FetchStudentOk(data)
    \/ \E ok \in BOOLEAN : SrvLogsFetch(ok)
    \/ FetchLogsOk
    \/ FetchLogsFail
    \/ openAddLogModal
    \/ closeAddLogModal
    \/ \E f \in LogForms : editLogForm(f[1], f[2])
    \/ handleAddLog
    \/ \E r \in logReqs : \E stored, delivered \in BOOLEAN : SrvAddLog(r, stored, delivered)
    \/ \E r \in logReqs : AddLogOk(r)
    \/ \E r \in logReqs : AddLogFail(r)
    \/ handleSendEmail
    \/ closeEmailModal
    \/ handleSendEmailConfirm
    \/ \E r \in emailReqs : \E stored, delivered \in BOOLEAN : SrvEmail(r, stored, delivered)
    \/ \E r \in emailReqs : EmailSendFail(r)
    \/ \E r \in emailReqs : EmailSendOk(r)
    \/ \E r \in emailReqs : \E outcome \in {"ok", "status", "throw"} : SrvEmailRefetch(r, outcome)
    \/ \E r \in emailReqs : EmailRefetchOk(r)
    \/ \E r \in emailReqs : EmailRefetchStatus(r)
    \/ \E r \in emailReqs : EmailRefetchThrow(r)

SpecLogs == Init /\ [][LogsNext]_vars

\* The AI summary beside the profile and log fetches, and the toasts.
AiNext ==
    \/ \E data \in Profiles : FetchStudentOk(data)
    \/ FetchStudentFail
    \/ \E ok \in BOOLEAN : SrvLogsFetch(ok)
    \/ FetchLogsOk
    \/ FetchLogsFail
    \/ fetchAiSummary
    \/ \E r \in aiReqs, summary \in Summaries : AiOk(r, summary)
    \/ \E r \in aiReqs : AiFail(r)
    \/ TimerFire
    \/ \E id \in 0..MaxClock : removeToast(id)
    \/ Tick

SpecAi == Init /\ [][AiNext]_vars

\* The GET of an AI summary settles: fetch resolves or rejects, and the
\* continuation of fetchAiSummary runs.
AiSettles ==
    \E r \in aiReqs : (\E summary \in Summaries : AiOk(r, summary)) \/ AiFail(r)
SpecAiFair == SpecAi /\ WF_vars(AiSettles)

\* =============================================================== login
\* The two versions of the server action `login`: the one of
\* components/actions/login-action.ts, whose whole network path is in one
\* try block, and the one of part_001, whose success path is after it.
Impls == {"login-action.ts", "part_001"}

\* A text (a string the code takes apart or puts together) is the
\* sequence of its fragments; a template literal concatenates them.
Text(str) == IF str = "" THEN <<>> ELSE <<str>>
\* String.prototype.includes for a fragment.
TextIncludes(text, fragment) == Includes(text, fragment)

\* What the form is submitted with.
Forms ==
    {[username |-> u, password |-> w] : u \in {"", "ana"}, w \in {"", "pw"}}
\* loginSchema.safeParse, login-action.ts 13-16: the fields that fail
\* ("non-empty username/password at minimum").
fieldErrors(form) ==
    {f \in {"username", "password"} : form[f] = ""}

\* Bodies the login endpoint can answer with.
TokenBody == "{\"access_token\":\"tok123\"}"
DetailBody == "{\"detail\":\"bad credentials\"}"
Bodies == {TokenBody, DetailBody, "", "Internal Server Error", "NEXT_REDIRECT"}
Statuses == {200, 401, 500}
\* The status in a template literal.
StatusText(st) ==
    CASE st = 200 -> "200" [] st = 401 -> "401" [] st = 500 -> "500"
\* response.ok
Ok(resp) == resp.status \in 200..299
Response(st, body) == [status |-> st, body |-> body, bodyUsed |-> FALSE]

\* A JSON value of the endpoint: the fields the action reads.
Json(access_token, detail) == [access_token |-> access_token, detail |-> detail]
\* JSON.parse: the value of a text, Null for a text that is not JSON.
JsonParse(body) ==
    CASE body = TokenBody -> Some(Json(Some("tok123"), Null))
      [] body = DetailBody -> Some(Json(Null, Some(Text("bad credentials"))))
      [] OTHER -> Null

\* An Error: its class, its message, and whether it is the signal that
\* redirect() throws (Next.js knows it by its digest).
Err(name, message, isRedirect) ==
    [name |-> name, message |-> message, isRedirect |-> isRedirect]
\* redirect("/dashboard"): the message of the signal is the marker itself.
RedirectSignal == Err("Error", <<"NEXT_REDIRECT">>, TRUE)
\* The SyntaxError of JSON.parse / response.json(): engines that quote the
\* text in the message, and engines that give only the position.
ParseErrors(body) ==
    {Err("SyntaxError", <<"Unexpected token, ">> \o Text(body) \o <<" is not valid JSON">>, FALSE),
     Err("SyntaxError", <<"Unexpected token in JSON at position 0">>, FALSE)}
\* Reading a body that was read before: response.text() after response.json().
BodyUsedError == Err("TypeError", <<"Body is unusable">>, FALSE)
\* fetch rejecting: the network is down, DNS fails, the connection resets.
FetchError == Err("TypeError", <<"fetch failed">>, FALSE)

\* getErrorMessage(errorData): one string out of the error body.
getErrorMessage(errorData) ==
    IF errorData.detail # Null THEN errorData.detail[1]
    ELSE <<"An unknown error occurred">>

\* What a run of login ends with: a returned value or a thrown one, the
\* cookie it set (Null for none) and what it did on the way, in order.
End(ret, thr, cookie, did) ==
    [returned |-> ret, thrown |-> thr, cookie |-> cookie, did |-> did]
Returned(v) == End(Some(v), Null, Null, <<>>)
Thrown(e) == End(Null, Some(e), Null, <<>>)
\* The values login returns, login-action.ts 21-23, 67-70, 100-103.
ValidationErrors(fields) == [kind |-> "errors", fields |-> fields]
ServerValidationError(message, st) ==
    [kind |-> "server_validation_error", message |-> message, status |-> st]
ServerError(err) == [kind |-> "server_error", error_details |-> err.message]

\* response.json(): reads the body, then parses it.  `e` is the
\* SyntaxError the engine throws for this body if it does not parse.
ReadJson(resp, e) ==
    [resp |-> [resp EXCEPT !.bodyUsed = TRUE],
     value |-> IF resp.bodyUsed THEN Null ELSE JsonParse(resp.body),
     err |-> IF resp.bodyUsed THEN BodyUsedError ELSE e]
\* response.text(): reads the body; a body can be read once.
ReadText(resp) ==
    [resp |-> [resp EXCEPT !.bodyUsed = TRUE],
     ok |-> ~resp.bodyUsed,
     text |-> resp.body,
     err |-> BodyUsedError]
\* text || `Server returned ${response.status}`
TextOrStatus(resp) ==
    IF resp.body = "" THEN <<"Server returned ", StatusText(resp.status)>>
    ELSE Text(resp.body)

\* 60 * 60 * 24 * 7, login-action.ts 84.
MaxAge == 60 * 60 * 24 * 7
\* The cookie of cookieStore.set('accessToken', access_token, {...}),
\* login-action.ts 79-85; production is NODE_ENV === 'production'.
Cookie(access_token, production) ==
    [name |-> "accessToken", value |-> access_token, httpOnly |-> TRUE,
     secure |-> production, sameSite |-> "lax", path |-> "/", maxAge |-> MaxAge]
\* SetCookieAndRedirect with the redirect first: the throw skips the cookie.
RedirectBeforeCookie(access_token, production) ==
    End(Null, Some(RedirectSignal), Null, <<"redirect">>)

\* Cookie set, then redirect("/dashboard") throws its signal.
SetCookieAndRedirect(access_token, production) ==
    End(Null, Some(RedirectSignal), Some(Cookie(access_token, production)),
        <<"cookie", "redirect">>)

\* ---- login-action.ts
\* The catch of login-action.ts, 92-104, around everything the try did:
\* what was thrown is thrown again if its message includes the marker,
\* and is turned into a server_error otherwise.
CatchByMessage(o) ==
    IF o.thrown # Null /\ ~TextIncludes(o.thrown[1].message, "NEXT_REDIRECT")
    THEN [o EXCEPT !.returned = Some(ServerError(o.thrown[1])), !.thrown = Null]
    ELSE o

\* !response.ok in login-action.ts, 53-71: response.json() first, and
\* response.text() of the same Response in its catch.
NotOkJsonFirst(resp, e) ==
    LET j == ReadJson(resp, e) IN
    IF j.value # Null
    THEN Returned(ServerValidationError(getErrorMessage(j.value[1]), resp.status))
    ELSE LET t == ReadText(j.resp) IN
         IF t.ok
         THEN Returned(ServerValidationError(
                  getErrorMessage(Json(Null, Some(TextOrStatus(resp)))), resp.status))
         ELSE Thrown(t.err)

\* The success path, login-action.ts 73-90 and part_001 218-234.
Success(resp, e, production) ==
    LET j == ReadJson(resp, e) IN
    IF j.value = Null THEN Thrown(j.err)
    ELSE SetCookieAndRedirect(j.value[1].access_token, production)

\* ---- part_001
\* NotOkTextFirst that wraps the text without trying JSON.parse.
NotOkTextOnly(resp) ==
    LET t == ReadText(resp) IN
    IF ~t.ok THEN Thrown(t.err)
    ELSE Returned(ServerValidationError(
             getErrorMessage(Json(Null, Some(TextOrStatus(resp)))), resp.status))

\* !response.ok in part_001, 186-204: response.text() once, then JSON.parse.
NotOkTextFirst(resp) ==
    LET t == ReadText(resp) IN
    IF ~t.ok THEN Thrown(t.err)
    ELSE IF JsonParse(t.text) # Null
    THEN Returned(ServerValidationError(getErrorMessage(JsonParse(t.text)[1]), resp.status))
    ELSE Returned(ServerValidationError(
             getErrorMessage(Json(Null, Some(TextOrStatus(resp)))), resp.status))

\* The catch of part_001, 206-213: everything thrown inside its try
\* becomes a server_error.
CatchAll(o) ==
    IF o.thrown # Null
    THEN [o EXCEPT !.returned = Some(ServerError(o.thrown[1])), !.thrown = Null]
    ELSE o

\* ---- both versions, by the place the call has reached
\* fetch rejects: the catch of the try it is in.
RejectedOf(i) ==
    IF i = "login-action.ts" THEN CatchByMessage(Thrown(FetchError))
                             ELSE CatchAll(Thrown(FetchError))
\* The answer is not 2xx.  In login-action.ts the branch is inside the
\* outer try; in part_001 it is inside the try as well, 164-205.
NotOkOf(i, resp, e) ==
    IF i = "login-action.ts" THEN CatchByMessage(NotOkJsonFirst(resp, e))
                             ELSE CatchAll(NotOkTextFirst(resp))
\* The answer is 2xx.  In login-action.ts the success path is inside the
\* try, 73-90; in part_001 it is after the try/catch, 215-234.
SuccessOf(i, resp, e, production) ==
    IF i = "login-action.ts" THEN CatchByMessage(Success(resp, e, production))
                             ELSE Success(resp, e, production)

\* ---- the steps of a call
\* What a finished run leaves behind.
Finish(o) ==
    /\ result' = o.returned
    /\ thrown' = o.thrown
    /\ cookieJar' = IF o.cookie = Null THEN cookieJar ELSE o.cookie
    /\ effects' = effects \o o.did
    /\ lpc' = "done"

\* login without the early return of the validation.
loginUnvalidated(i, form) ==
    /\ lpc \in {"idle", "done"}
    /\ logins < MaxOps
    /\ logins' = logins + 1
    /\ impl' = i
    /\ formData' = Some(form)
    /\ response' = Null
    /\ thrown' = Null
    /\ result' = Null
    /\ effects' = <<"POST">>
    /\ lpc' = "fetch"
    /\ ev' = Event("login", logins)
    /\ UNCHANGED <<uiVars, netVars, envVars, settled, cookieJar, dirVars, moreVars>>

\* The form is submitted to version i of the action: validation,
\* login-action.ts 13-24 (part_001 146-157), and, for a valid form, the
\* POST of 44-51 (176-183).
login(i, form) ==
    /\ lpc \in {"idle", "done"}
    /\ logins < MaxOps
    /\ logins' = logins + 1
    /\ impl' = i
    /\ formData' = Some(form)
    /\ response' = Null
    /\ thrown' = Null
    /\ IF fieldErrors(form) # {}
       THEN /\ result' = Some(ValidationErrors(fieldErrors(form)))
            /\ effects' = <<>>
            /\ lpc' = "done"
       ELSE /\ result' = Null
            /\ effects' = <<"POST">>
            /\ lpc' = "fetch"
    /\ ev' = Event("login", logins)
    /\ UNCHANGED <<uiVars, netVars, envVars, settled, cookieJar, dirVars, moreVars>>

\* fetch rejects: the catch of the try it is in.
FetchRejected ==
    /\ lpc = "fetch"
    /\ Finish(RejectedOf(impl))
    /\ ev' = Event("FetchRejected", logins)
    /\ UNCHANGED <<uiVars, netVars, envVars, settled, dirVars, moreVars>>
    /\ UNCHANGED <<impl, formData, response, logins>>

\* fetch resolves with the backend's answer.
FetchResolved(st, body) ==
    /\ lpc = "fetch"
    /\ response' = Some(Response(st, body))
    /\ lpc' = "response"
    /\ ev' = Event("FetchResolved", logins)
    /\ UNCHANGED <<uiVars, netVars, envVars, settled, dirVars, moreVars>>
    /\ UNCHANGED <<impl, formData, cookieJar, result, thrown, effects, logins>>

\* The answer is not 2xx.  In login-action.ts the branch is inside the
\* outer try; in part_001 it is inside the try as well, 164-205.
LoginNotOk(e) ==
    /\ lpc = "response"
    /\ ~Ok(response[1])
    /\ Finish(NotOkOf(impl, response[1], e))
    /\ response' = Some([response[1] EXCEPT !.bodyUsed = TRUE])
    /\ ev' = Event("LoginNotOk", logins)
    /\ UNCHANGED <<uiVars, netVars, envVars, settled, dirVars, moreVars>>
    /\ UNCHANGED <<impl, formData, logins>>

\* The answer is 2xx.  In login-action.ts the success path is inside the
\* try, 73-90; in part_001 it is after the try/catch, 215-234.
LoginSuccess(e, production) ==
    /\ lpc = "response"
    /\ Ok(response[1])
    /\ Finish(SuccessOf(impl, response[1], e, production))
    /\ response' = Some([response[1] EXCEPT !.bodyUsed = TRUE])
    /\ ev' = Event("LoginSuccess", logins)
    /\ UNCHANGED <<uiVars, netVars, envVars, settled, dirVars, moreVars>>
    /\ UNCHANGED <<impl, formData, logins>>

\* The SyntaxErrors the engine has for the body of the Response at hand.
EngineErrors == IF response = Null THEN {} ELSE ParseErrors(response[1].body)

LoginNext ==
    \/ \E i \in Impls, form \in Forms : login(i, form)
    \/ FetchRejected
    \/ \E st \in Statuses, body \in Bodies : FetchResolved(st, body)
    \/ \E e \in EngineErrors : LoginNotOk(e)
    \/ \E e \in EngineErrors, production \in BOOLEAN : LoginSuccess(e, production)

SpecLogin == Init /\ [][LoginNext]_vars

\* =========================================================== directory
\* StudentDirectory, part_000.  A string the code looks into is the
\* sequence of its characters.
predefinedTags ==
    {"Students not contacted in 7 days", "High intent", "Needs essay help"}

\* String.prototype.toLowerCase, for the letters that occur.
LowerChar(c) ==
    CASE c = "A" -> "a" [] c = "B" -> "b" [] c = "N" -> "n" [] OTHER -> c
toLowerCase(str) == [i \in 1..Len(str) |-> LowerChar(str[i])]
\* String.prototype.includes
StrIncludes(str, sub) ==
    \E i \in 0..Len(str) :
        /\ i + Len(sub) <= Len(str)
        /\ SubSeq(str, i + 1, i + Len(sub)) = sub

\* interface Student, lib/api/students.ts 4-12 (the fields the filters read).
DirStudent(id, name, application_status, ctry, tags) ==
    [id |-> id, name |-> name, application_status |-> application_status,
     country |-> ctry, tags |-> tags]
\* The students the backend holds.
Roster ==
    {DirStudent(1, <<"A", "n", "a">>, "Applying", Some("USA"), Some(<<"High intent">>)),
     DirStudent(2, <<"a", "N">>, "Exploring", Null, Null),
     DirStudent(3, <<"B", "o">>, "Applying", Some("UK"),
                Some(<<"Needs essay help", "High intent">>)),
     DirStudent(4, <<"N", "a">>, "Exploring", Some("USA"), Some(<<>>))}
\* Lists GET /students can answer with.
StudentLists == UNION {[1..n -> Roster] : n \in 0..MaxStudents}
\* What is typed into the search box, and the options of the two selects,
\* part_000 133-137 and 149-153.
SearchTexts == {<<>>, <<"A", "N">>, <<"o">>}
StatusOptions == {"all", "Applying", "Exploring"}
CountryOptions == {"all", "USA", "UK"}

\* The table is rendered (none of the early returns of 59-65).
DirDisplayed == ~dirLoading /\ dirError = Null

\* getStudents resolves, 45-47.
FetchStudentsOk(data) ==
    /\ dirFetch
    /\ dirFetch' = FALSE
    /\ students' = data
    /\ dirLoading' = FALSE
    /\ ev' = Event("FetchStudentsOk", 0)
    /\ UNCHANGED <<uiVars, netVars, envVars, settled, loginVars, moreVars>>
    /\ UNCHANGED <<dirError, search, status, country, filterTags>>

\* FetchStudentsFail whose catch leaves the loading flag set.
FetchStudentsFailKeepsLoading ==
    /\ dirFetch
    /\ dirFetch' = FALSE
    /\ dirError' = Some("Failed to fetch students")
    /\ ev' = Event("FetchStudentsFail", 0)
    /\ UNCHANGED <<uiVars, netVars, envVars, settled, loginVars, moreVars>>
    /\ UNCHANGED <<students, dirLoading, search, status, country, filterTags>>

\* getStudents rejects (non-2xx, the network, a body that does not parse):
\* the catch of 48-53.
FetchStudentsFail ==
    /\ dirFetch
    /\ dirFetch' = FALSE
    /\ dirError' = Some("Failed to fetch students")
    /\ dirLoading' = FALSE
    /\ ev' = Event("FetchStudentsFail", 0)
    /\ UNCHANGED <<uiVars, netVars, envVars, settled, loginVars, moreVars>>
    /\ UNCHANGED <<students, search, status, country, filterTags>>

\* onChange of the search box, 121.
setSearch(value) ==
    /\ DirDisplayed
    /\ search' = value
    /\ ev' = Event("setSearch", 0)
    /\ UNCHANGED <<uiVars, netVars, envVars, settled, loginVars, moreVars>>
    /\ UNCHANGED <<students, dirLoading, dirError, status, country, filterTags, dirFetch>>

\* onValueChange of the status select, 128.
setStatus(value) ==
    /\ DirDisplayed
    /\ status' = value
    /\ ev' = Event("setStatus", 0)
    /\ UNCHANGED <<uiVars, netVars, envVars, settled, loginVars, moreVars>>
    /\ UNCHANGED <<students, dirLoading, dirError, search, country, filterTags, dirFetch>>

\* onValueChange of the country select, 144.
setCountry(value) ==
    /\ DirDisplayed
    /\ country' = value
    /\ ev' = Event("setCountry", 0)
    /\ UNCHANGED <<uiVars, netVars, envVars, settled, loginVars, moreVars>>
    /\ UNCHANGED <<students, dirLoading, dirError, search, status, filterTags, dirFetch>>

\* handleTagChange of the directory, 98-100.
toggleFilterTag(tag) ==
    /\ DirDisplayed
    /\ filterTags' = IF Includes(filterTags, tag) THEN Without(filterTags, tag)
                     ELSE Append(filterTags, tag)
    /\ ev' = Event("toggleFilterTag", 0)
    /\ UNCHANGED <<uiVars, netVars, envVars, settled, loginVars, moreVars>>
    /\ UNCHANGED <<students, dirLoading, dirError, search, status, country, dirFetch>>

\* clearAllFilters that forgets the tag selection.
clearAllFiltersKeepsTags ==
    /\ DirDisplayed
    /\ search' = <<>>
    /\ status' = "all"
    /\ country' = "all"
    /\ ev' = Event("clearAllFilters", 0)
    /\ UNCHANGED <<uiVars, netVars, envVars, settled, loginVars, moreVars>>
    /\ UNCHANGED <<students, dirLoading, dirError, filterTags, dirFetch>>

\* clearAllFilters, 102-107.
clearAllFilters ==
    /\ DirDisplayed
    /\ search' = <<>>
    /\ status' = "all"
    /\ country' = "all"
    /\ filterTags' = <<>>
    /\ ev' = Event("clearAllFilters", 0)
    /\ UNCHANGED <<uiVars, netVars, envVars, settled, loginVars, moreVars>>
    /\ UNCHANGED <<students, dirLoading, dirError, dirFetch>>

\* searched, 71-75.
searched(L) ==
    SelectSeq(L, LAMBDA st : StrIncludes(toLowerCase(st.name), toLowerCase(search)))
\* filteredStatus, 77-82.
filteredStatus(L) ==
    IF status = "all" THEN L
    ELSE SelectSeq(L, LAMBDA st : st.application_status = status)
\* filteredCountry, 84-89.
filteredCountry(L) ==
    IF country = "all" THEN L
    ELSE SelectSeq(L, LAMBDA st : st.country = Some(country))
\* filteredTags with some in the place of every.
filteredTagsSome(L) ==
    IF Len(filterTags) = 0 THEN L
    ELSE SelectSeq(L, LAMBDA st :
             /\ st.tags # Null
             /\ \E i \in 1..Len(filterTags) : Includes(st.tags[1], filterTags[i]))
\* filteredTags that lets a student without a tag list through.
filteredTagsNullPasses(L) ==
    IF Len(filterTags) = 0 THEN L
    ELSE SelectSeq(L, LAMBDA st :
             \/ st.tags = Null
             \/ \A i \in 1..Len(filterTags) : Includes(st.tags[1], filterTags[i]))
\* filteredTags, 91-96.
filteredTags(L) ==
    IF Len(filterTags) = 0 THEN L
    ELSE SelectSeq(L, LAMBDA st :
             /\ st.tags # Null
             /\ \A i \in 1..Len(filterTags) : Includes(st.tags[1], filterTags[i]))
\* The rows of the table body, 209 and 216.
Rows == filteredTags(filteredCountry(filteredStatus(searched(students))))

DirNext ==
    \/ \E data \in StudentLists : FetchStudentsOk(data)
    \/ FetchStudentsFail
    \/ \E value \in SearchTexts : setSearch(value)
    \/ \E value \in StatusOptions : setStatus(value)
    \/ \E value \in CountryOptions : setCountry(value)
    \/ \E tag \in predefinedTags : toggleFilterTag(tag)
    \/ clearAllFilters

SpecDir == Init /\ [][DirNext]_vars

\* The promise of getStudents settles: fetch resolves or rejects, 45.
FetchStudentsSettles ==
    \/ \E data \in StudentLists : FetchStudentsOk(data)
    \/ FetchStudentsFail
SpecDirFair == SpecDir /\ WF_vars(FetchStudentsSettles)

\* The tag handlers against a backend that answers every tag PATCH it
\* accepts with the profile carrying the tags it was sent.
EchoAnswer(r) == Student(Some(r.body), r.student[1].internal_notes)
EchoNext ==
    \/ \E data \in Profiles : FetchStudentOk(data)
    \/ FetchStudentFail
    \/ \E tag \in availableTags, isChecked \in BOOLEAN : handleTagChange(tag, isChecked)
    \/ \E r \in tagReqs : TagOk(r, EchoAnswer(r))
    \/ \E r \in tagReqs : TagFail(r)

SpecEcho == Init /\ [][EchoNext]_vars

\* ======================================================= stats summary
\* StudentDirectorySummary, StudentDirectorySummary.tsx 78-177.
\* interface StudentStats, 70-76.
StudentStats(active, applying, essay, intent, notContacted) ==
    [activeStudents |-> active, applyingStage |-> applying,
     needsEssayHelp |-> essay, highIntent |-> intent,
     notContactedRecently |-> notContacted]
\* What GET /students/stats can answer with.
StatsAnswers == {StudentStats(0, 0, 0, 0, 0), StudentStats(3, 1, 0, 2, 1)}
\* count={stats?.activeStudents || 0} and the like, 135-168.
StatCount(field) == IF stats = Null THEN 0 ELSE stats[1][field]
\* The branch of the markup that is rendered, 117-129.
StatsView ==
    IF isLoading THEN "loading" ELSE IF isError THEN "error" ELSE "cards"

\* getStudentStats resolves, 88-91.
FetchStatsOk(data) ==
    /\ statsFetch
    /\ statsFetch' = FALSE
    /\ stats' = Some(data)
    /\ isLoading' = FALSE
    /\ ev' = Event("FetchStatsOk", 0)
    /\ UNCHANGED <<uiVars, netVars, envVars, settled, loginVars, dirVars>>
    /\ UNCHANGED <<isError, apiVars, addedLogs, routeVars>>

\* getStudentStats rejects: the catch of 92-106 logs and clears the
\* loading flag; isError has no setter (81).
FetchStatsFail ==
    /\ statsFetch
    /\ statsFetch' = FALSE
    /\ isLoading' = FALSE
    /\ ev' = Event("FetchStatsFail", 0)
    /\ UNCHANGED <<uiVars, netVars, envVars, settled, loginVars, dirVars>>
    /\ UNCHANGED <<stats, isError, apiVars, addedLogs, routeVars>>

\* The read fetches of the dashboard page and of the profile page.
ReadsNext ==
    \/ \E data \in StatsAnswers : FetchStatsOk(data)
    \/ FetchStatsFail
    \/ \E data \in StudentLists : FetchStudentsOk(data)
    \/ FetchStudentsFail
    \/ \E data \in Profiles : FetchStudentOk(data)
    \/ FetchStudentFail
    \/ \E ok \in BOOLEAN : SrvLogsFetch(ok)
    \/ FetchLogsOk
    \/ FetchLogsFail

SpecReads == Init /\ [][ReadsNext]_vars

\* ========================================================== API client
\* lib/api/students.ts: nine operations, each one fetch, a throw on
\* !response.ok and a return of response.json().
ApiOps ==
    {"getStudents", "getStudentProfile", "getCommunicationLogs",
     "getAiSummary", "sendFollowUpEmail", "updateStudentNotes",
     "updateStudentTags", "addCommunicationLog", "getStudentStats"}

\* The message of the Error an operation throws on !response.ok:
\* 65, 84, 103, 122, 141, 159, 179-180, 208, 227.
RequestFailedMessage(op, resp) ==
    CASE op = "getStudents" ->
           <<"Failed to fetch students. Status: ", StatusText(resp.status)>>
      [] op = "getStudentProfile" ->
           <<"Failed to fetch student profile. Status: ", StatusText(resp.status)>>
      [] op = "getCommunicationLogs" ->
           <<"Failed to fetch communication logs. Status: ", StatusText(resp.status)>>
      [] op = "getAiSummary" ->
           <<"Failed to fetch AI summary. Status: ", StatusText(resp.status)>>
      [] op = "sendFollowUpEmail" ->
           <<"Failed to send email. Status: ", StatusText(resp.status)>>
      [] op = "updateStudentNotes" ->
           <<"Failed to save notes. Status: ", StatusText(resp.status)>>
      [] op = "updateStudentTags" ->
           <<"Failed to update tags: ", StatusText(resp.status), " ">>
               \o Text(resp.body)
      [] op = "addCommunicationLog" ->
           <<"Failed to add communication log. Status: ", StatusText(resp.status)>>
      [] op = "getStudentStats" ->
           <<"Failed to fetch student statistics">>

\* How the promise of an operation settles.
Resolved(value) == [kind |-> "resolved", value |-> value, error |-> Null]
Rejected(e) == [kind |-> "rejected", value |-> Null, error |-> Some(e)]

\* The operation after its fetch has resolved with resp; e is what
\* response.json() throws on a body that is not JSON. sendFollowUpEmail
\* (131-143) reads no body and returns undefined.
ApiOutcome(op, resp, e) ==
    IF ~Ok(resp) THEN Rejected(Err("Error", RequestFailedMessage(op, resp), FALSE))
    ELSE IF op = "sendFollowUpEmail" THEN Resolved(Null)
    ELSE IF JsonParse(resp.body) = Null THEN Rejected(e)
    ELSE Resolved(JsonParse(resp.body))

\* A caller calls an operation: it issues its fetch.
ApiCall(op) ==
    /\ apiCall = Null \/ apiOutcome # Null
    /\ apiCall' = Some(op)
    /\ apiRequests' = 1
    /\ apiResponse' = Null
    /\ apiOutcome' = Null
    /\ ev' = Event("ApiCall", 0)
    /\ UNCHANGED <<uiVars, netVars, envVars, settled, loginVars, dirVars, statsVars>>
    /\ UNCHANGED <<addedLogs, routeVars>>

\* fetch rejects: the operation has no try block, the error passes through.
ApiFetchRejected ==
    /\ apiCall # Null /\ apiOutcome = Null
    /\ apiOutcome' = Some(Rejected(FetchError))
    /\ ev' = Event("ApiFetchRejected", 0)
    /\ UNCHANGED <<apiCall, apiRequests, apiResponse>>
    /\ UNCHANGED <<uiVars, netVars, envVars, settled, loginVars, dirVars, statsVars>>
    /\ UNCHANGED <<addedLogs, routeVars>>

\* fetch resolves with a response of status st and body text body.
ApiFetchResolved(st, body, e) ==
    /\ apiCall # Null /\ apiOutcome = Null
    /\ apiResponse' = Some(Response(st, body))
    /\ apiOutcome' = Some(ApiOutcome(apiCall[1], Response(st, body), e))
    /\ ev' = Event("ApiFetchResolved", 0)
    /\ UNCHANGED <<apiCall, apiRequests>>
    /\ UNCHANGED <<uiVars, netVars, envVars, settled, loginVars, dirVars, statsVars>>
    /\ UNCHANGED <<addedLogs, routeVars>>

ApiNext ==
    \/ \E op \in ApiOps : ApiCall(op)
    \/ ApiFetchRejected
    \/ \E st \in Statuses, body \in Bodies :
          \E e \in ParseErrors(body) : ApiFetchResolved(st, body, e)

SpecApi == Init /\ [][ApiNext]_vars

\* ================================================= route changes
\* The two effects of the profile page, page.tsx 115-153, with the
\* dependency list [studentId]: a change of the route parameter runs
\* both again; no effect has a cleanup, no fetch is aborted, and no
\* state is reset.
StudentIds == {"s1", "s2"}
\* The entries of GET /students/{id}/communications: the student_id of each.
LogsOf(id) == {<<>>, <<id>>, <<id, id>>}
\* The early returns, 331-341.
RouteDisplayed == ~routeLoading /\ routeError = Null /\ routeStudent # Null

\* The route changes to another student: both effects run for the new id.
Navigate(id) ==
    /\ id # studentId
    /\ navigations < MaxOps
    /\ navigations' = navigations + 1
    /\ studentId' = id
    /\ routeReqs' = routeReqs \cup
          {[kind |-> "profile", id |-> id, n |-> navigations + 1],
           [kind |-> "logs", id |-> id, n |-> navigations + 1]}
    /\ ev' = Event("Navigate", navigations + 1)
    /\ UNCHANGED <<routeStudent, routeLogs, routeLoading, routeError>>
    /\ UNCHANGED <<uiVars, netVars, envVars, settled, loginVars, dirVars,
                   statsVars, apiVars, addedLogs>>

\* fetchStudent, 118-123: the profile of the id the request was sent for.
RouteProfileOk(r) ==
    /\ r \in routeReqs /\ r.kind = "profile"
    /\ routeReqs' = routeReqs \ {r}
    /\ routeStudent' = Some(r.id)
    /\ routeLoading' = FALSE
    /\ ev' = Event("RouteProfileOk", r.n)
    /\ UNCHANGED <<studentId, routeLogs, routeError, navigations>>
    /\ UNCHANGED <<uiVars, netVars, envVars, settled, loginVars, dirVars,
                   statsVars, apiVars, addedLogs>>

\* fetchStudent, catch, 124-127.
RouteProfileFail(r) ==
    /\ r \in routeReqs /\ r.kind = "profile"
    /\ routeReqs' = routeReqs \ {r}
    /\ routeError' = Some("HTTP error! Status: 500")
    /\ routeLoading' = FALSE
    /\ ev' = Event("RouteProfileFail", r.n)
    /\ UNCHANGED <<studentId, routeStudent, routeLogs, navigations>>
    /\ UNCHANGED <<uiVars, netVars, envVars, settled, loginVars, dirVars,
                   statsVars, apiVars, addedLogs>>

\* fetchCommunicationLogs, 139-144: the log of the id the request was
\* sent for.
RouteLogsOk(r, data) ==
    /\ r \in routeReqs /\ r.kind = "logs"
    /\ routeReqs' = routeReqs \ {r}
    /\ routeLogs' = data
    /\ ev' = Event("RouteLogsOk", r.n)
    /\ UNCHANGED <<studentId, routeStudent, routeLoading, routeError, navigations>>
    /\ UNCHANGED <<uiVars, netVars, envVars, settled, loginVars, dirVars,
                   statsVars, apiVars, addedLogs>>

\* fetchCommunicationLogs, catch, 145-147.
RouteLogsFail(r) ==
    /\ r \in routeReqs /\ r.kind = "logs"
    /\ routeReqs' = routeReqs \ {r}
    /\ ev' = Event("RouteLogsFail", r.n)
    /\ UNCHANGED <<studentId, routeStudent, routeLogs, routeLoading,
                   routeError, navigations>>
    /\ UNCHANGED <<uiVars, netVars, envVars, settled, loginVars, dirVars,
                   statsVars, apiVars, addedLogs>>

RouteNext ==
    \/ \E id \in StudentIds : Navigate(id)
    \/ \E r \in routeReqs : RouteProfileOk(r)
    \/ \E r \in routeReqs : RouteProfileFail(r)
    \/ \E r \in routeReqs : \E data \in LogsOf(r.id) : RouteLogsOk(r, data)
    \/ \E r \in routeReqs : RouteLogsFail(r)

SpecRoute == Init /\ [][RouteNext]_vars

\* ================================================================= claims
\* The request a settled-or-issued event is about, while it is in flight.
TagReq(id) == CHOOSE r \in tagReqs : r.id = id
\* The set a toggle intends: (old set + tag) if checked, (old set - tag) if not.
Intended(r) ==
    IF r.isChecked THEN SeqSet(r.before) \cup {r.tag} ELSE SeqSet(r.before) \ {r.tag}
\* The tags of the local student state, null as empty.
StudentTags == IF student = Null THEN <<>> ELSE OrElse(student[1].tags, <<>>)
LastSettled == settled[Len(settled)]

\* C1: once the failure branch of a tag toggle has run, the displayed tag
\* set equals the set that was displayed immediately before that toggle
\* was applied (its Phase-1 snapshot), in every interleaving.
C1_RollbackRestoresSnapshot ==
    [][ev'.op = "TagFail" =>
          SeqSet(selectedTags') = SeqSet(TagReq(ev'.id).before)]_vars

\* C2: when the PATCH of a toggle succeeds, the tags displayed once the
\* success branch has run equal the tags of the profile the server
\* returned, also when they differ from the optimistic computation.
C2_SuccessShowsServerTags ==
    ev.op = "TagOk" =>
        SeqSet(selectedTags) = SeqSet(OrElse(LastSettled.answer[1].tags, <<>>))

\* C3: in the state right after handleTagChange(tag, isChecked) has
\* started, the displayed tag set is (old set + tag) if isChecked and
\* (old set - tag) otherwise, old set being the set displayed at the toggle.
C3_OptimisticApply ==
    ev.op = "handleTagChange" =>
        /\ \E r \in tagReqs : r.id = ev.id
        /\ SeqSet(selectedTags) = Intended(TagReq(ev.id))
W3_OptimisticApply ==
    /\ ev.op = "handleTagChange"
    /\ ~TagReq(ev.id).isChecked
    /\ Len(TagReq(ev.id).before) = 2
    /\ Len(selectedTags) = 1

\* C4: the displayed tag list never holds the same tag twice, whatever
\* toggles, successes, failures and rollbacks happened.
C4_NoDuplicateTags == NoDup(selectedTags)
W4_NoDuplicateTags ==
    /\ ev.op = "TagFail"
    /\ Len(selectedTags) = 1
    /\ \E i \in 1..Len(settled) : settled[i].op = "TagOk"

\* C5: the body of every tag PATCH in flight is the complete intended tag
\* set of its toggle, and right after the toggle it is the displayed list.
C5_FullReplacementBody ==
    /\ \A r \in tagReqs : SeqSet(r.body) = Intended(r)
    /\ ev.op = "handleTagChange" => TagReq(ev.id).body = selectedTags
W5_FullReplacementBody ==
    /\ ev.op = "handleTagChange"
    /\ Len(TagReq(ev.id).body) = 2
    /\ TagReq(ev.id).isChecked

\* C6: every toggle issues its own request, which stays in flight until
\* its outcome is handled, and the local student state is the profile of
\* the successful response that arrived last, whatever the issue order.
IsProfileOutcome(o) == o.op \in {"FetchStudentOk", "TagOk", "NotesOk"}
ProfileOutcomes == SelectSeq(settled, IsProfileOutcome)
SettledIds ==
    {settled[i].id : i \in {j \in 1..Len(settled) :
                              settled[j].op \notin {"FetchStudentOk", "FetchStudentFail"}}}
InFlightIds == {r.id : r \in tagReqs \cup noteReqs}
C6_LastArrivalWins ==
    /\ ProfileOutcomes # <<>> =>
          student = ProfileOutcomes[Len(ProfileOutcomes)].answer
    /\ InFlightIds \cup SettledIds = 0..(nextId - 1)
    /\ InFlightIds \cap SettledIds = {}
W6_LastArrivalWins ==
    /\ Len(settled) = 3
    /\ settled[2].op = "TagOk" /\ settled[3].op = "TagOk"
    /\ settled[2].id > settled[3].id
    /\ settled[2].answer # settled[3].answer
    /\ student = settled[3].answer

LogReq(id) == CHOOSE r \in logReqs : r.id = id
EmailReq(id) == CHOOSE r \in emailReqs : r.id = id
\* The list after exactly one toast of the given type was posted.
OneToast(type) ==
    /\ Len(toasts') = Len(toasts) + 1
    /\ SubSeq(toasts', 1, Len(toasts)) = toasts
    /\ toasts'[Len(toasts')].type = type

\* C7: issuing the add-log POST and the backend handling it leave the log
\* list as it is; the success branch puts the returned entry first with
\* the previous entries after it in their order; the failure branch leaves
\* the list, the form fields and the open modal unchanged.
C7_LogAddOnConfirmation ==
    [][/\ (ev'.op = "handleAddLog" \/ (ev'.op = "backend" /\ logReqs' # logReqs))
            => communicationLogs' = communicationLogs
       /\ ev'.op = "AddLogOk"
            => /\ LogReq(ev'.id).resp # Null
               /\ communicationLogs' = <<LogReq(ev'.id).resp[1]>> \o communicationLogs
       /\ ev'.op = "AddLogFail"
            => UNCHANGED <<communicationLogs, newLogType, newLogContent,
                           isAddLogModalOpen>>]_vars
W7_LogAddOnConfirmation ==
    /\ ev.op = "AddLogOk"
    /\ Len(communicationLogs) = 2
    /\ communicationLogs[1].type = "Call"
    /\ communicationLogs[2] = InitialLogs[1]
    /\ \E i \in 1..Len(toasts) : toasts[i].type = "error"

\* C8: a confirmation issues one POST and at most one re-fetch, the
\* re-fetch only once the POST has come back successful; a failed send
\* issues no re-fetch and leaves the log list and the modal flag as they are.
C8_EmailTwoSequentialCalls ==
    /\ [](\A r \in emailReqs :
            /\ r.posts = 1
            /\ r.gets = IF r.ph \in {"post", "postOk", "postFail"} THEN 0 ELSE 1)
    /\ [][/\ ev'.op = "EmailSendOk"
               => /\ EmailReq(ev'.id).ph = "postOk"
                  /\ \E q \in emailReqs' : q.id = ev'.id /\ q.ph = "get"
          /\ ev'.op = "EmailSendFail"
               => /\ EmailReq(ev'.id).gets = 0
                  /\ ~\E q \in emailReqs' : q.id = ev'.id
                  /\ UNCHANGED <<communicationLogs, isEmailModalOpen>>]_vars
W8_EmailTwoSequentialCalls ==
    /\ ev.op = "EmailSendFail"
    /\ isEmailModalOpen
    /\ communicationLogs # <<>>
    /\ \E r \in emailReqs : r.gets = 1

\* C9: in every reachable state at most one AI-summary request is in
\* flight: the trigger cannot act while a request is pending.
C9_OneAiRequestInFlight ==
    /\ Cardinality(aiReqs) <= 1
    /\ aiReqs # {} => ~AiButtonEnabled
W9_OneAiRequestInFlight ==
    /\ Cardinality(aiReqs) = 1
    /\ aiSummary # Null
    /\ ev.op = "fetchAiSummary"

\* C10: a failed AI-summary fetch sets the summary to the fallback string
\* and posts exactly one error toast; a successful one sets the summary
\* to the server's and posts exactly one success toast; neither changes
\* student, the displayed tags, the notes or the communication log.
C10_AiSummaryOutcomes ==
    [][/\ ev'.op = "AiFail"
            => /\ aiSummary' = Some(FallbackSummary)
               /\ OneToast("error")
               /\ UNCHANGED <<student, selectedTags, notes, communicationLogs>>
       /\ ev'.op = "AiOk"
            => /\ aiSummary' = settled'[Len(settled')].answer
               /\ OneToast("success")
               /\ UNCHANGED <<student, selectedTags, notes, communicationLogs>>]_vars
W10_AiSummaryOutcomes ==
    /\ ev.op = "AiFail"
    /\ aiSummary = Some(FallbackSummary)
    /\ \E i \in 1..Len(settled) : settled[i].op = "AiOk"
    /\ student # Null /\ communicationLogs # <<>>

\* C11: a toast is in the list right after showToast has posted it; no
\* toast of that id is in the list once its timer has fired or the user
\* has dismissed it; and the later of the two, the timer of a toast the
\* user has already dismissed, leaves the toast list unchanged.
C11_ToastLifecycle ==
    [][/\ Len(timers') > Len(timers)
            => /\ Len(toasts') = Len(toasts) + 1
               /\ toasts'[Len(toasts')].id = timers'[Len(timers')].id
       /\ ev'.op \in {"TimerFire", "removeToast"}
            => ~\E i \in 1..Len(toasts') : toasts'[i].id = ev'.id
       /\ (ev'.op = "TimerFire" /\ Head(timers).dismissed)
            => toasts' = toasts]_vars

\* C12: the step that issues a mutation and the backend handling it post
\* no toast; the failure branch of a tag toggle, a notes save, a log add
\* and an email send posts exactly one toast, an error; the success branch
\* of a log add, and the end of an email confirmation whose POST came back
\* 2xx, posts exactly one toast, a success.
C12_ToastsFollowOutcomes ==
    [][/\ ev'.op \in {"handleTagChange", "handleSaveNotes", "handleAddLog",
                      "handleSendEmailConfirm", "backend"}
            => toasts' = toasts
       /\ ev'.op \in {"TagFail", "NotesFail", "AddLogFail", "EmailSendFail"}
            => OneToast("error")
       /\ ev'.op \in {"AddLogOk", "EmailRefetchOk", "EmailRefetchStatus",
                      "EmailRefetchThrow"}
            => OneToast("success")]_vars

\* C13: when a notes save succeeds, the local student state becomes the
\* whole profile the PATCH returned; when it fails, the local student
\* state, the typed notes text and the displayed tags stay as they are and
\* no request takes the place of the failed one.
C13_NotesSaveFrame ==
    [][/\ ev'.op = "NotesOk"
            => student' = settled'[Len(settled')].answer
       /\ ev'.op = "NotesFail"
            => /\ UNCHANGED <<student, notes, selectedTags>>
               /\ noteReqs' \subseteq noteReqs
               /\ ~\E q \in noteReqs' : q.id = ev'.id]_vars
W13_NotesSaveFrame ==
    /\ ev.op = "NotesOk"
    /\ student = LastSettled.answer
    /\ SeqSet(StudentTags) # SeqSet(selectedTags)
    /\ \E i \in 1..Len(settled) : settled[i].op = "NotesFail"

\* The form does not satisfy the login schema.
InvalidForm(form) == form.username = "" \/ form.password = ""
\* The token a body carries, Null if it is not JSON or has none.
TokenOf(body) ==
    IF JsonParse(body) = Null THEN Null ELSE JsonParse(body)[1].access_token

\* C14: when the submitted username or password is empty, login returns
\* the field errors of the empty fields, issues no network call, leaves
\* the cookie as it is and raises no redirect.
C14_LoginValidationFailure ==
    [][(ev'.op = "login" /\ InvalidForm(formData'[1]))
          => /\ result' # Null
             /\ result'[1].kind = "errors"
             /\ result'[1].fields =
                  {f \in {"username", "password"} : formData'[1][f] = ""}
             /\ effects' = <<>>
             /\ cookieJar' = cookieJar
             /\ thrown' = Null
             /\ lpc' = "done"]_vars
W14_LoginValidationFailure ==
    /\ ev.op = "login"
    /\ formData = Some([username |-> "", password |-> ""])
    /\ cookieJar # Null
    /\ result # Null
    /\ effects = <<>>

\* C15: for a valid form and a non-2xx answer whose body is JSON, login
\* returns one server-validation error, the message of the body's detail,
\* with the HTTP status; it leaves the cookie as it is and raises no
\* redirect.
C15_LoginRejected ==
    [][(ev'.op = "LoginNotOk" /\ JsonParse(response[1].body) # Null)
          => /\ result' # Null
             /\ result'[1].kind = "server_validation_error"
             /\ result'[1].status = response[1].status
             /\ result'[1].message # <<>>
             /\ response[1].body = DetailBody
                  => result'[1].message = <<"bad credentials">>
             /\ cookieJar' = cookieJar
             /\ thrown' = Null
             /\ effects' = <<"POST">>]_vars
W15_LoginRejected ==
    /\ ev.op = "LoginNotOk"
    /\ impl = "part_001"
    /\ response[1].status = 401
    /\ response[1].body = DetailBody
    /\ result # Null

\* C16: for a valid form and a 2xx answer carrying access_token, login
\* sets the accessToken cookie to that token (http-only, same-site lax,
\* path "/", max age 7 days), then raises the redirect; the cookie write
\* comes before the redirect and the call issued exactly one POST.
C16_LoginSuccess ==
    [][(ev'.op = "LoginSuccess" /\ TokenOf(response[1].body) # Null)
          => /\ cookieJar' # Null
             /\ cookieJar'[1].name = "accessToken"
             /\ cookieJar'[1].value = TokenOf(response[1].body)
             /\ cookieJar'[1].httpOnly
             /\ cookieJar'[1].sameSite = "lax"
             /\ cookieJar'[1].path = "/"
             /\ cookieJar'[1].maxAge = 7 * 24 * 60 * 60
             /\ thrown' = Some(RedirectSignal)
             /\ result' = Null
             /\ effects' = <<"POST", "cookie", "redirect">>]_vars
W16_LoginSuccess ==
    /\ ev.op = "LoginSuccess"
    /\ response[1].body = TokenBody
    /\ cookieJar # Null
    /\ thrown # Null

\* C17: when login has raised the redirect, the call ends by throwing
\* that very signal and returns nothing; and what the catch of
\* login-action.ts throws again as a redirect is the redirect signal,
\* never another error.
C17_RedirectIsControlFlow ==
    /\ (lpc = "done" /\ Includes(effects, "redirect"))
          => thrown = Some(RedirectSignal) /\ result = Null
    /\ (lpc = "done" /\ impl = "login-action.ts" /\ thrown # Null)
          => thrown[1].isRedirect

\* C18: on a non-2xx answer whose body is not JSON, login returns a
\* server-validation error with the HTTP status whose message is the raw
\* text, or "Server returned <status>" when the text is empty.
C18_ErrorBodyFallback ==
    [][(ev'.op = "LoginNotOk" /\ JsonParse(response[1].body) = Null)
          => /\ result' # Null
             /\ result'[1].kind = "server_validation_error"
             /\ result'[1].status = response[1].status
             /\ result'[1].message =
                  IF response[1].body = ""
                  THEN <<"Server returned ", StatusText(response[1].status)>>
                  ELSE <<response[1].body>>]_vars

\* C19: whatever the network does, a call ends with a returned value;
\* the one thing a call ever throws is the redirect signal.
C19_NothingPropagatesUncaught ==
    (lpc = "done" /\ thrown # Null) => thrown[1].isRedirect

\* The four predicates of the directory's filter state.
MatchesSearch(st) == StrIncludes(toLowerCase(st.name), toLowerCase(search))
MatchesStatus(st) == status = "all" \/ st.application_status = status
MatchesCountry(st) == country = "all" \/ st.country = Some(country)
MatchesTags(st) ==
    \A t \in SeqSet(filterTags) : st.tags # Null /\ t \in SeqSet(st.tags[1])
\* The k-th of the four filter functions.
FilterFn(k, L) ==
    CASE k = 1 -> searched(L) [] k = 2 -> filteredStatus(L)
      [] k = 3 -> filteredCountry(L) [] k = 4 -> filteredTags(L)
\* The four applied in the order o[1], o[2], o[3], o[4].
InOrder(o, L) == FilterFn(o[4], FilterFn(o[3], FilterFn(o[2], FilterFn(o[1], L))))

\* C20: the rows shown are the students of the fetched list that satisfy
\* all four predicates, in the list's order, and each of the 24 orders of
\* applying searched, filteredStatus, filteredCountry and filteredTags
\* gives that same list.
C20_FilterConjunction ==
    DirDisplayed =>
        /\ Rows = SelectSeq(students, LAMBDA st :
                      /\ MatchesSearch(st) /\ MatchesStatus(st)
                      /\ MatchesCountry(st) /\ MatchesTags(st))
        /\ \A o \in Permutations(1..4) : InOrder(o, students) = Rows
W20_FilterConjunction ==
    /\ DirDisplayed
    /\ search = <<"A", "N">> /\ status # "all" /\ country # "all"
    /\ Len(filterTags) = 1
    /\ Len(students) = 2
    /\ Len(Rows) = 1
    /\ Rows[1] = students[2]

\* C21: with tags selected, the tag filter keeps exactly the students
\* whose tag list exists and contains every selected tag, so a student
\* with null or empty tags is dropped and every displayed student has all
\* of them; with nothing selected the tag filter keeps every student.
C21_TagFilterSuperset ==
    DirDisplayed =>
        /\ filterTags = <<>> => filteredTags(students) = students
        /\ filterTags # <<>> =>
             /\ filteredTags(students) = SelectSeq(students, LAMBDA st :
                    /\ st.tags # Null
                    /\ SeqSet(filterTags) \subseteq SeqSet(st.tags[1]))
             /\ \A i \in 1..Len(Rows) :
                    /\ Rows[i].tags # Null
                    /\ Rows[i].tags[1] # <<>>
                    /\ SeqSet(filterTags) \subseteq SeqSet(Rows[i].tags[1])
W21_TagFilterSuperset ==
    /\ DirDisplayed
    /\ Len(filterTags) = 2
    /\ Len(students) = 2
    /\ students[1].tags \in {Null, Some(<<>>)}
    /\ filteredTags(students) = <<students[2]>>

\* C22: clearAllFilters sets the search text to empty, status and country
\* to "all" and the tag selection to empty in one step, leaves the fetched
\* list as it is, and the rows shown afterwards are the whole fetched list.
C22_ClearAllFilters ==
    [][ev'.op = "clearAllFilters"
          => /\ search' = <<>>
             /\ status' = "all"
             /\ country' = "all"
             /\ filterTags' = <<>>
             /\ students' = students
             /\ Rows' = students]_vars
W22_ClearAllFilters ==
    /\ ev.op = "clearAllFilters"
    /\ Len(students) = 2
    /\ Rows = students

\* C23: the mount issues the one GET /students and none is issued after
\* it has settled; the view eventually leaves the loading state; a failed
\* fetch puts the view in the error display, and once there the error,
\* the list and the flags stay as they are for the rest of the session.
C23_DirectoryInitialFetch ==
    /\ dirFetch = TRUE
    /\ [][~dirFetch => ~dirFetch']_vars
    /\ <>(~dirLoading)
    /\ [][ev'.op = "FetchStudentsFail" => (dirError' # Null /\ ~dirLoading')]_vars
    /\ [][dirError # Null
            => /\ dirError' = dirError
               /\ ~dirLoading'
               /\ UNCHANGED <<students, search, status, country, filterTags>>]_vars
W23_DirectoryInitialFetch ==
    /\ ev.op = "FetchStudentsFail"
    /\ dirError # Null
    /\ ~dirLoading
    /\ ~dirFetch

\* The error display of each section: part_000 63-65,
\* StudentDirectorySummary.tsx 125-127, page.tsx 335-337 (the profile
\* page has this one error display, for the log section too).
DirErrorDisplayed == ~dirLoading /\ dirError # Null
StatsErrorDisplayed == StatsView = "error"
ProfileErrorDisplayed == ~loading /\ error # Null

\* C24: once a read fetch has failed (student list, aggregate stats,
\* student profile, communication log), the section that depends on it
\* shows its error display.
C24_ReadFailuresSurface ==
    /\ ev.op = "FetchStudentsFail" => DirErrorDisplayed
    /\ ev.op = "FetchStudentFail" => ProfileErrorDisplayed
    /\ ev.op = "FetchStatsFail" => StatsErrorDisplayed
    /\ ev.op = "FetchLogsFail" => ProfileErrorDisplayed

\* C25: every call of an operation of the API client has issued exactly
\* one HTTP request; on a 2xx response it resolves with the parsed body
\* (sendFollowUpEmail, which declares no body, with nothing); on a
\* non-2xx response it rejects with an error whose message carries the
\* HTTP status.
C25_ApiClientContract ==
    /\ apiCall # Null => apiRequests = 1
    /\ (apiCall # Null /\ apiResponse # Null /\ apiOutcome # Null) =>
          LET op == apiCall[1]
              resp == apiResponse[1]
              out == apiOutcome[1]
          IN /\ (Ok(resp) /\ op = "sendFollowUpEmail") => out = Resolved(Null)
             /\ (Ok(resp) /\ op # "sendFollowUpEmail"
                          /\ JsonParse(resp.body) # Null) =>
                    out = Resolved(JsonParse(resp.body))
             /\ ~Ok(resp) =>
                    /\ out.kind = "rejected"
                    /\ TextIncludes(out.error[1].message, StatusText(resp.status))

\* C26: a log entry that a successful add has put into the list of the
\* profile page is in the list in every later state.
C26_ConfirmedLogsKept ==
    \A entry \in addedLogs : entry \in SeqSet(communicationLogs)

\* C27: with a backend that echoes the tags of every tag PATCH it
\* accepts, whenever no tag request is in flight the displayed tags are
\* the tags of the local student state (null as empty).
C27_TagsAgreeAtQuiescence ==
    tagReqs = {} => SeqSet(selectedTags) = SeqSet(StudentTags)

\* C28: isGeneratingSummary is true exactly while an AI-summary request
\* is in flight; the success branch and the failure branch both clear
\* it; and, the request settling eventually, a set flag is eventually
\* cleared.
C28_AiFlagReleased ==
    /\ [](isGeneratingSummary <=> aiReqs # {})
    /\ [][ev'.op \in {"AiOk", "AiFail"} => ~isGeneratingSummary']_vars
    /\ (isGeneratingSummary = TRUE) ~> (isGeneratingSummary = FALSE)
W28_AiFlagReleased ==
    /\ ev.op = "AiFail"
    /\ ~isGeneratingSummary
    /\ \E i \in 1..Len(settled) : settled[i].op = "AiOk"

\* The kind of result a call ends with: the kind of the value returned,
\* the redirect, or an error thrown at the caller.
ResultKind(o) ==
    IF o.thrown = Null THEN o.returned[1].kind
    ELSE IF o.thrown[1].isRedirect THEN "redirect" ELSE "throws"
SameResult(a, b) ==
    /\ ResultKind(a) = ResultKind(b)
    /\ a.cookie = b.cookie

\* C29: at every point a login call can reach, whatever the network,
\* the backend and the engine do next, the version of login-action.ts
\* and the version of part_001 end with the same kind of result and set
\* the same cookie.
C29_LoginVersionsEquivalent ==
    /\ lpc = "fetch" => SameResult(RejectedOf("login-action.ts"), RejectedOf("part_001"))
    /\ lpc = "response" =>
          \A e \in EngineErrors, production \in BOOLEAN :
              IF Ok(response[1])
              THEN SameResult(SuccessOf("login-action.ts", response[1], e, production),
                              SuccessOf("part_001", response[1], e, production))
              ELSE SameResult(NotOkOf("login-action.ts", response[1], e),
                              NotOkOf("part_001", response[1], e))

====
